---- MODULE Spec2Model ----
(***************************************************************************)
(* Versioned document ingestion and retrieval of the FASA SOP knowledge    *)
(* base: QdrantManager (src/src/indexing/vector_db.py), the ingestion      *)
(* pipeline (src/src/ingestion) and FASAEngine (src/src/rag/retriever.py). *)
(*                                                                         *)
(* Strings that the code parses or compares are sequences of one-character *)
(* strings over the characters U+0000 to U+00FF.  A Python float is an     *)
(* IEEE 754 double.                                                        *)
(*                                                                         *)
(* store is the sequence of point payloads of collection fasa_sops and     *)
(* collection its configuration, both as the server holds them; pc[w] and  *)
(* job[w] are the position and the local variables of client w in the call *)
(* it runs; last is what the last retrieval or parsing call gave.  Every   *)
(* request a client sends to the server is a step of its own: nothing in   *)
(* the code keeps the requests of another client out from between two      *)
(* requests of one call.                                                   *)
(***************************************************************************)
EXTENDS Integers, Sequences, FiniteSets, TLC

VARIABLES store, last, pc, job, collection

vars == <<store, last, pc, job, collection>>

(***************************************************************************)
(* Bounds                                                                  *)
(***************************************************************************)
MaxStore == 3
MaxNodes == 2
MaxCands == 2
MaxBlocks == 2

(***************************************************************************)
(* Characters and strings                                                  *)
(***************************************************************************)
Digits == {"0", "1", "2", "3", "4", "5", "6", "7", "8", "9"}

UpperSeq == <<"A","B","C","D","E","F","G","H","I","J","K","L","M",
              "N","O","P","Q","R","S","T","U","V","W","X","Y","Z">>

LowerSeq == <<"a","b","c","d","e","f","g","h","i","j","k","l","m",
              "n","o","p","q","r","s","t","u","v","w","x","y","z">>

Letters == {UpperSeq[i] : i \in 1..26} \cup {LowerSeq[i] : i \in 1..26}

\* the characters that \s matches, strip() removes and split() splits at:
\* the space, 0x09 to 0x0d, 0x1c to 0x1f, 0x85 and 0xa0
WhiteSpace ==
    {" ", "\t", "\n", "", "\f", "\r", "", "", "", "", "", " "}

DigitVal(c) ==
    CASE c = "0" -> 0 [] c = "1" -> 1 [] c = "2" -> 2 [] c = "3" -> 3
      [] c = "4" -> 4 [] c = "5" -> 5 [] c = "6" -> 6 [] c = "7" -> 7
      [] c = "8" -> 8 [] c = "9" -> 9

\* the upper-case letters from U+00C0 on and their lower-case letters
UpperLatin == <<"À","Á","Â","Ã","Ä","Å","Æ","Ç","È","É","Ê","Ë","Ì","Í","Î",
                "Ï","Ð","Ñ","Ò","Ó","Ô","Õ","Ö","Ø","Ù","Ú","Û","Ü","Ý",
                "Þ">>

LowerLatin == <<"à","á","â","ã","ä","å","æ","ç","è","é","ê","ë","ì","í","î",
                "ï","ð","ñ","ò","ó","ô","õ","ö","ø","ù","ú","û","ü","ý",
                "þ">>

\* the lower-case letter of every upper-case letter
LowerOf ==
    LET upper == UpperSeq \o UpperLatin
        lower == LowerSeq \o LowerLatin
    IN  [c \in {upper[i] : i \in 1..Len(upper)} |->
            lower[CHOOSE i \in 1..Len(upper) : upper[i] = c]]

\* str.lower() on one character
LowerChar(c) == IF c \in DOMAIN LowerOf THEN LowerOf[c] ELSE c

Lower(s) == [i \in 1..Len(s) |-> LowerChar(s[i])]

\* s[a:b] of Python on 1-based positions a..b (empty when a > b)
Slice(s, a, b) == IF a > b THEN <<>> ELSE SubSeq(s, a, b)

\* number of characters of s, from position i on, that lie in set S one
\* after the other
RunLen(s, i, S) ==
    IF i > Len(s) THEN 0
    ELSE CHOOSE k \in 0..(Len(s) - i + 1) :
            /\ i + k > Len(s) \/ s[i + k] \notin S
            /\ \A j \in i..(i + k - 1) : s[j] \in S

\* number of characters at the end of s that lie in set S
TrailingRun(s, S) ==
    CHOOSE k \in 0..Len(s) :
        /\ k = Len(s) \/ s[Len(s) - k] \notin S
        /\ \A j \in (Len(s) - k + 1)..Len(s) : s[j] \in S

\* s without the characters of S at its start and at its end
StripChars(s, S) == Slice(s, 1 + RunLen(s, 1, S), Len(s) - TrailingRun(s, S))

\* str.lstrip(), str.rstrip() and str.strip()
LStrip(s) == Slice(s, 1 + RunLen(s, 1, WhiteSpace), Len(s))

RStrip(s) == Slice(s, 1, Len(s) - TrailingRun(s, WhiteSpace))

Strip(s) == StripChars(s, WhiteSpace)

(***************************************************************************)
(* Python floats (IEEE 754 binary64).  A float is a record: kind is        *)
(* "zero", "finite", "inf" or "nan", neg its sign bit; a finite one is     *)
(* 1.b2 b3 ... * 2^exp in binary for bits = <<1, b2, b3, ...>>, written    *)
(* without trailing zeros.                                                 *)
(***************************************************************************)
FloatOf(kind, neg, exp, bits) ==
    [kind |-> kind, neg |-> neg, exp |-> exp, bits |-> bits]

\* 0.0 and 1.0
Zero == FloatOf("zero", FALSE, 0, <<>>)

One == FloatOf("finite", FALSE, 0, <<1>>)

\* float("inf") and float("nan")
Infinity == FloatOf("inf", FALSE, 0, <<>>)

NaN == FloatOf("nan", FALSE, 0, <<>>)

\* -x
Negative(x) == [x EXCEPT !.neg = ~x.neg]

\* the binary fraction 0.x is below 0.y
BitsLess(x, y) ==
    LET bit(z, j) == IF j <= Len(z) THEN z[j] ELSE 0
    IN  \E i \in 1..Len(y) :
            /\ y[i] = 1
            /\ bit(x, i) = 0
            /\ \A j \in 1..(i - 1) : bit(x, j) = y[j]

\* |a| < |b| for two floats that are no nan
MagnitudeLess(a, b) ==
    \/ a.kind = "zero" /\ b.kind # "zero"
    \/ a.kind = "finite" /\ b.kind = "inf"
    \/ /\ a.kind = "finite" /\ b.kind = "finite"
       /\ \/ a.exp < b.exp
          \/ a.exp = b.exp /\ BitsLess(a.bits, b.bits)

\* a < b on floats: every comparison with nan is false, -0.0 equals 0.0
Less(a, b) ==
    /\ a.kind # "nan" /\ b.kind # "nan"
    /\ \/ a.neg /\ ~b.neg /\ ~(a.kind = "zero" /\ b.kind = "zero")
       \/ ~a.neg /\ ~b.neg /\ MagnitudeLess(a, b)
       \/ a.neg /\ b.neg /\ MagnitudeLess(b, a)

\* a > b
Greater(a, b) == Less(b, a)

\* a == b
FloatEqual(a, b) ==
    a.kind # "nan" /\ b.kind # "nan" /\ ~Less(a, b) /\ ~Less(b, a)

\* a <= b
LessEqual(a, b) == Less(a, b) \/ FloatEqual(a, b)

(***************************************************************************)
(* Natural numbers of any size: the sequence of their decimal digits, the  *)
(* first one not 0; <<>> is 0.                                             *)
(***************************************************************************)
\* x < y
NatLess(x, y) ==
    \/ Len(x) < Len(y)
    \/ /\ Len(x) = Len(y)
       /\ \E i \in 1..Len(x) :
            x[i] < y[i] /\ \A j \in 1..(i - 1) : x[j] = y[j]

\* s without the zeros it starts with
Leading(s) == Slice(s, 1 + RunLen(s, 1, {0}), Len(s))

\* 2 * x: a digit takes a carry when the digit behind it is 5 or more
Twice(x) ==
    (IF x # <<>> /\ x[1] >= 5 THEN <<1>> ELSE <<>>)
    \o [i \in 1..Len(x) |->
            ((2 * x[i]) % 10) + (IF i < Len(x) /\ x[i + 1] >= 5 THEN 1 ELSE 0)]

\* 64 * x: as 64 divides 10^6, a digit of the product is decided by the
\* digit of x at its place and the six behind it
Times64(x) ==
    LET at(j) == IF j >= 1 /\ j <= Len(x) THEN x[j] ELSE 0
        window(j) ==
            1000000 * at(j) + 100000 * at(j + 1) + 10000 * at(j + 2)
            + 1000 * at(j + 3) + 100 * at(j + 4) + 10 * at(j + 5) + at(j + 6)
    IN  Leading([i \in 1..(Len(x) + 2) |->
                    ((64 * window(i - 2)) \div 1000000) % 10])

\* 2^30 * x
Times2To30(x) == Times64(Times64(Times64(Times64(Times64(x)))))

\* x - y for x >= y: a digit lends one when what is behind it is less in x
\* than in y
NatMinus(x, y) ==
    LET n == Len(x)
        yd(i) == IF i > n - Len(y) THEN y[i - (n - Len(y))] ELSE 0
        \* the first place behind i where x and y differ, n + 1 if none
        differ(i) ==
            CHOOSE j \in (i + 1)..(n + 1) :
                /\ j = n + 1 \/ x[j] # yd(j)
                /\ \A m \in (i + 1)..(j - 1) : x[m] = yd(m)
        lends(i) == differ(i) <= n /\ x[differ(i)] < yd(differ(i))
    IN  Leading([i \in 1..n |->
                    (10 + x[i] - yd(i) - (IF lends(i) THEN 1 ELSE 0)) % 10])

(***************************************************************************)
(* The float nearest to a quotient of two natural numbers                  *)
(***************************************************************************)
\* the binary digits a float keeps
MANT_DIG == 53

\* the exponents of the largest float, of the smallest float with MANT_DIG
\* digits and of the smallest float
MAX_EXP == 1023

MIN_NORMAL_EXP == -1022

MIN_EXP == -1074

\* n/d * 2^e as m * 2^e' with 1 <= m < 2: the record [n, d, e] with m = n/d
\* and e = e', reached in steps of 2^30, 2^6 and 2.  The search ends as
\* well when e tells that the number is beyond the floats: 2^(MAX_EXP + 1)
\* or more, or less than 2^(MIN_EXP - 1).
RECURSIVE Scale(_, _, _)
\* n/d < 1, with n30 = 2^30 * n and n6 = 64 * n
Raise(n30, n6, n, d, e) ==
    IF ~NatLess(n6, d) THEN Scale(Twice(n), d, e - 1)
    ELSE IF NatLess(n30, d) THEN Scale(n30, d, e - 30)
    ELSE Scale(n6, d, e - 6)

\* n/d >= 2, with d30 = 2^30 * d and d6 = 64 * d
Lower2(d30, d6, n, d, e) ==
    IF NatLess(n, d6) THEN Scale(n, Twice(d), e + 1)
    ELSE IF ~NatLess(n, d30) THEN Scale(n, d30, e + 30)
    ELSE Scale(n, d6, e + 6)

Scale(n, d, e) ==
    IF e < MIN_EXP - 1 \/ e > MAX_EXP THEN [n |-> n, d |-> d, e |-> e]
    ELSE IF NatLess(n, d) THEN Raise(Times2To30(n), Times64(n), n, d, e)
    ELSE IF NatLess(n, Twice(d)) THEN [n |-> n, d |-> d, e |-> e]
    ELSE Lower2(Times2To30(d), Times64(d), n, d, e)

\* the next p binary digits of n/d, which is below 2, behind bits; n is
\* what is left of the quotient
RECURSIVE Quotient(_, _, _, _)
Quotient(n, d, p, bits) ==
    IF p <= 0 \/ n = <<>> THEN [n |-> n, d |-> d, bits |-> bits]
    ELSE IF NatLess(n, d) THEN Quotient(Twice(n), d, p - 1, Append(bits, 0))
    ELSE Quotient(Twice(NatMinus(n, d)), d, p - 1, Append(bits, 1))

\* bits without the zeros it ends with
Canonical(bits) == Slice(bits, 1, Len(bits) - TrailingRun(bits, {0}))

\* bits + 1 in the last place, without the zeros it ends with; <<>>: the
\* digits were all 1
Increment(bits) ==
    Slice(bits, 1, Len(bits) - TrailingRun(bits, {1}) - 1)
    \o (IF TrailingRun(bits, {1}) < Len(bits) THEN <<1>> ELSE <<>>)

\* the float of sign neg for the digits q that Quotient gave at exponent
\* e: round half to even on what is left of the quotient
Rounded(neg, e, q) ==
    LET odd == q.bits # <<>> /\ q.bits[Len(q.bits)] = 1
        up == q.n # <<>> /\ (NatLess(q.d, q.n) \/ (q.n = q.d /\ odd))
        carry == up /\ Increment(q.bits) = <<>>
        bits == IF carry THEN <<1>>
                ELSE IF up THEN Increment(q.bits) ELSE Canonical(q.bits)
    IN  IF bits = <<>> THEN FloatOf("zero", neg, 0, <<>>)
        ELSE IF e + (IF carry THEN 1 ELSE 0) > MAX_EXP
        THEN FloatOf("inf", neg, 0, <<>>)
        ELSE FloatOf("finite", neg, e + (IF carry THEN 1 ELSE 0), bits)

\* the float for the scaled quotient s
Kept(neg, s) ==
    IF s.e > MAX_EXP THEN FloatOf("inf", neg, 0, <<>>)
    ELSE IF s.e < MIN_EXP - 1 THEN FloatOf("zero", neg, 0, <<>>)
    ELSE Rounded(neg, s.e,
                 Quotient(s.n, s.d,
                          IF s.e >= MIN_NORMAL_EXP THEN MANT_DIG
                          ELSE s.e - MIN_EXP + 1, <<>>))

\* the float nearest to n/d, n > 0, with sign neg
Nearest(neg, n, d) == Kept(neg, Scale(n, d, 0))

(***************************************************************************)
(* float() on strings: a string that float() rejects gives ok = FALSE      *)
(* (ValueError).                                                           *)
(***************************************************************************)
\* the white space float() strips: the separators 0x1c to 0x1f are none
FloatSpace == WhiteSpace \ {"", "", "", ""}

RECURSIVE DigitsToInt(_)
DigitsToInt(s) ==
    IF s = <<>> THEN 0
    ELSE 10 * DigitsToInt(SubSeq(s, 1, Len(s) - 1)) + DigitVal(s[Len(s)])

RECURSIVE Pow10(_)
Pow10(k) == IF k <= 0 THEN 1 ELSE 10 * Pow10(k - 1)

\* the length of the digitpart of the float grammar that starts at position
\* i (digits, with single underscores between two digits), 0 if none does
RECURSIVE DigitPart(_, _)
DigitPart(s, i) ==
    LET n == RunLen(s, i, Digits)
    IN  IF n = 0 THEN 0
        ELSE IF /\ i + n + 1 <= Len(s)
                /\ s[i + n] = "_" /\ s[i + n + 1] \in Digits
        THEN n + 1 + DigitPart(s, i + n + 1)
        ELSE n

\* the digits of x, without its underscores, as numbers
DigitsOf(x) ==
    LET digits == SelectSeq(x, LAMBDA c : c \in Digits)
    IN  [i \in 1..Len(digits) |-> DigitVal(digits[i])]

\* the float nearest to mant * 10^k, with sign neg, for digits mant that
\* neither start nor end with 0.  A number of 10^309 or more is beyond the
\* largest float, one below 10^-324 is nearer to zero than to the smallest
\* float
Decimal(neg, mant, k) ==
    IF mant = <<>> THEN FloatOf("zero", neg, 0, <<>>)
    ELSE IF Len(mant) + k > 309 THEN FloatOf("inf", neg, 0, <<>>)
    ELSE IF Len(mant) + k < -323 THEN FloatOf("zero", neg, 0, <<>>)
    ELSE Nearest(neg, mant \o [i \in 1..k |-> 0],
                 <<1>> \o [i \in 1..(0 - k) |-> 0])

\* the float nearest to digits * 10^k, with sign neg: the zeros at the end
\* of the digits go into the exponent
Magnitude(neg, digits, k) ==
    CHOOSE out \in
        {Decimal(neg, mant, trail + k) :
            trail \in {TrailingRun(digits, {0})},
            mant \in {Slice(digits, 1 + RunLen(digits, 1, {0}),
                            Len(digits) - TrailingRun(digits, {0}))}} : TRUE

\* the exponent of the literal b whose mantissa ends at position m:
\* ok, it is absent or well formed and ends the literal; val, its value,
\* where 10^9 stands for every exponent of more than nine digits (it
\* outweighs the digits of every mantissa)
FloatExponent(b, m) ==
    LET hasExp == m < Len(b) /\ b[m + 1] = "e"
        esigned == m + 1 < Len(b) /\ b[m + 2] \in {"+", "-"}
        e0 == m + 2 + (IF esigned THEN 1 ELSE 0)
        ex(d) == IF Len(d) > 9 THEN Pow10(9) ELSE DigitsToInt(d)
        exd(n3) == SelectSeq(Slice(b, e0, e0 + n3 - 1), LAMBDA c : c \in Digits)
        val(n3) == (IF esigned /\ b[m + 2] = "-" THEN -1 ELSE 1)
                   * ex(Slice(exd(n3), 1 + RunLen(exd(n3), 1, {"0"}),
                              Len(exd(n3))))
        exponent(n3) == [ok |-> n3 >= 1 /\ e0 + n3 - 1 = Len(b),
                         val |-> val(n3)]
    IN  IF hasExp THEN exponent(DigitPart(b, e0))
        ELSE [ok |-> m = Len(b), val |-> 0]

\* the value of the literal b whose mantissa ends at position m, with n1
\* characters before the point and n2 behind it, and whose exponent is e
Literal(b, neg, n1, n2, m, e) ==
    IF n1 + n2 >= 1 /\ e.ok
    THEN [ok |-> TRUE,
          val |-> CHOOSE out \in
                    {Magnitude(neg, digits, e.val - frac) :
                        digits \in {DigitsOf(Slice(b, 1, m))},
                        frac \in {Len(DigitsOf(Slice(b, n1 + 2,
                                                     n1 + 1 + n2)))}} :
                    TRUE]
    ELSE [ok |-> FALSE, val |-> Zero]

\* the literal b whose mantissa ends at position m
Mantissa(b, neg, n1, n2, m) == Literal(b, neg, n1, n2, m, FloatExponent(b, m))

\* the literal b with n1 characters before the point, if it has one, and
\* n2 behind it
Pointed(b, neg, n1, n2) ==
    Mantissa(b, neg, n1, n2,
             IF n1 < Len(b) /\ b[n1 + 1] = "." THEN n1 + 1 + n2 ELSE n1)

\* the literal b without sign: digitpart [. [digitpart]] | . digitpart with
\* an optional exponent, where n1 is the length of the digitpart before the
\* point; neg: a minus sign stood before it
FloatLiteral(b, neg, n1) ==
    Pointed(b, neg, n1,
            IF n1 < Len(b) /\ b[n1 + 1] = "." THEN DigitPart(b, n1 + 2)
            ELSE 0)

\* float() of the string b that follows the sign: inf, infinity, nan or a
\* literal
Unsigned(b, neg) ==
    IF b \in {<<"i","n","f">>, <<"i","n","f","i","n","i","t","y">>}
    THEN [ok |-> TRUE, val |-> FloatOf("inf", neg, 0, <<>>)]
    ELSE IF b = <<"n","a","n">>
    THEN [ok |-> TRUE, val |-> FloatOf("nan", neg, 0, <<>>)]
    ELSE FloatLiteral(b, neg, DigitPart(b, 1))

\* float() of the stripped and lowered string s
Signed(s) ==
    Unsigned(IF s # <<>> /\ s[1] \in {"+", "-"} THEN Tail(s) ELSE s,
             s # <<>> /\ s[1] = "-")

\* float(raw): white space around, a sign, then inf, infinity, nan or a
\* literal
ParseFloat(raw) == Signed(Lower(StripChars(raw, FloatSpace)))

(***************************************************************************)
(* round(x, 3) on floats: the float nearest to the decimal number of three *)
(* places behind the point that is nearest to the exact value of x, a      *)
(* value half way between two of them going to the even one.               *)
(***************************************************************************)
\* the places round(score, 3) keeps
NDIGITS == 3

\* 5 * x: a digit takes what the digit behind it carries, half of it
Times5(x) ==
    LET at(j) == IF j >= 1 /\ j <= Len(x) THEN x[j] ELSE 0
    IN  Leading([i \in 1..(Len(x) + 1) |->
                    ((5 * at(i - 1)) % 10) + (at(i) \div 2)])

\* 5^k * x
RECURSIVE Times5To(_, _)
Times5To(x, k) ==
    IF k <= 0 \/ x = <<>> THEN x ELSE Times5To(Times5(x), k - 1)

\* x + b for an even x and a binary digit b
WithBit(x, b) ==
    IF b = 0 THEN x
    ELSE IF x = <<>> THEN <<1>>
    ELSE [x EXCEPT ![Len(x)] = @ + 1]

\* the natural number whose binary digits are those of x followed by the
\* binary digits bits from position i on
RECURSIVE Doubled(_, _, _)
Doubled(x, bits, i) ==
    IF i > Len(bits) THEN x
    ELSE IF x = <<>> /\ bits[i] = 0 THEN Doubled(<<>>, bits, i + 1)
    ELSE Doubled(WithBit(Twice(x), bits[i]), bits, i + 1)

\* the natural number whose binary digits are bits
Natural(bits) == Doubled(<<>>, bits, 1)

\* x + 1
PlusOne(x) ==
    IF TrailingRun(x, {9}) = Len(x)
    THEN <<1>> \o [i \in 1..Len(x) |-> 0]
    ELSE [i \in 1..Len(x) |->
            IF i < Len(x) - TrailingRun(x, {9}) THEN x[i]
            ELSE IF i = Len(x) - TrailingRun(x, {9}) THEN x[i] + 1
            ELSE 0]

\* digits * 10^-k, k > NDIGITS, rounded to NDIGITS places, with sign neg:
\* kept is what stands before the places that are cut, first the first
\* digit that is cut
RoundCut(neg, digits, kept, first) ==
    LET odd == kept # <<>> /\ kept[Len(kept)] % 2 = 1
        more == \E i \in (Len(kept) + 2)..Len(digits) : digits[i] # 0
        up == first > 5 \/ (first = 5 /\ (more \/ odd))
    IN  Magnitude(neg, IF up THEN PlusOne(kept) ELSE kept, 0 - NDIGITS)

\* digits * 10^-k rounded to NDIGITS places, with sign neg
RoundDecimal(neg, digits, k) ==
    IF Len(digits) < k - NDIGITS THEN FloatOf("zero", neg, 0, <<>>)
    ELSE RoundCut(neg, digits,
                  Slice(digits, 1, Len(digits) - (k - NDIGITS)),
                  digits[Len(digits) - (k - NDIGITS) + 1])

\* round(x, 3).  The last binary digit of x stands for 2^-k with
\* k = Len(x.bits) - 1 - x.exp, so x is a number of k decimal places, whose
\* digits are 5^k times the binary digits of x.  A float below 2^-11 is
\* below 0.0005.
Round(x) ==
    IF x.kind # "finite" \/ Len(x.bits) - 1 - x.exp <= NDIGITS THEN x
    ELSE IF x.exp < -11 THEN FloatOf("zero", x.neg, 0, <<>>)
    ELSE RoundDecimal(x.neg,
                      Times5To(Natural(x.bits), Len(x.bits) - 1 - x.exp),
                      Len(x.bits) - 1 - x.exp)

(***************************************************************************)
(* Payloads: a passage's metadata is a function from field names to        *)
(* values; a field the code never set is absent from its domain.           *)
(***************************************************************************)
HasKey(meta, k) == k \in DOMAIN meta

\* dict.get(k, default)
Get(meta, k, default) == IF HasKey(meta, k) THEN meta[k] ELSE default

\* meta[k] = v on a copy of the dictionary
SetKey(meta, k, v) ==
    [x \in (DOMAIN meta) \cup {k} |-> IF x = k THEN v ELSE meta[x]]

\* `if doc_num:` -- None and the empty string are falsy
Truthy(meta, k) == HasKey(meta, k) /\ meta[k] # <<>>

UnknownTitle == <<"U","n","k","n","o","w","n"," ","T","i","t","l","e">>

(***************************************************************************)
(* QdrantManager: the store is the sequence of point payloads, in order of *)
(* insertion.  Point ids are the nodes' random UUIDs, so the order in      *)
(* which a scroll returns matching points is not the insertion order.      *)
(***************************************************************************)
BATCH_SIZE == 2

\* a key filter that looks at the title alone
KeyMatchTitleOnly(p, doc_num, title) ==
    HasKey(p, "sop_title") /\ p["sop_title"] = title

\* Filter(must=[document_number == doc_num, sop_title == title])
KeyMatch(p, doc_num, title) ==
    /\ HasKey(p, "document_number") /\ p["document_number"] = doc_num
    /\ HasKey(p, "sop_title") /\ p["sop_title"] = title

\* Filter(must=[..., status == "Active"])
ActiveMatch(p, doc_num, title) ==
    /\ KeyMatch(p, doc_num, title)
    /\ HasKey(p, "status") /\ p["status"] = "Active"

\* a retirement that removes the key's points from the collection
SetDbStatusDeletes(s, doc_num, title) ==
    SelectSeq(s, LAMBDA p : ~KeyMatch(p, doc_num, title))

\* client.set_payload(payload={"status": "Inactive"}, filter=...)
SetDbStatusInactive(s, doc_num, title) ==
    [i \in 1..Len(s) |->
        IF KeyMatch(s[i], doc_num, title)
        THEN SetKey(s[i], "status", "Inactive")
        ELSE s[i]]

\* the points client.scroll(..., limit=1) may return: any one Active point
\* of the key, or 0 for an empty result
ScrollActive(s, doc_num, title) ==
    LET hits == {i \in 1..Len(s) : ActiveMatch(s[i], doc_num, title)}
    IN  IF hits = {} THEN {0} ELSE hits

\* float(existing_payload.get("version_number", 0.0))
ExistingVersion(p) ==
    IF HasKey(p, "version_number")
    THEN ParseFloat(p["version_number"])
    ELSE [ok |-> TRUE, val |-> Zero]

\* try: float(first_node.metadata.get("version_number", 1.0))
\* except: 1.0
IncomingVersion(first) ==
    IF HasKey(first, "version_number")
    THEN LET r == ParseFloat(first["version_number"])
         IN  IF r.ok THEN r.val ELSE One
    ELSE One

\* an arbitration that lets a newer revision in without retiring the old one
ResolveWithoutRetire(s, pt, incoming_version) ==
    IF pt = 0
    THEN [raised |-> FALSE, status |-> "Active", flip |-> FALSE]
    ELSE LET e == ExistingVersion(s[pt])
         IN  IF ~e.ok
             THEN [raised |-> TRUE, status |-> "unset", flip |-> FALSE]
             ELSE IF Greater(e.val, incoming_version)
             THEN [raised |-> FALSE, status |-> "Inactive", flip |-> FALSE]
             ELSE [raised |-> FALSE, status |-> "Active", flip |-> FALSE]

\* an arbitration that retires the stored revision whenever the versions
\* differ, also when the incoming one is the older
ResolveRetiresOnOlder(s, pt, incoming_version) ==
    IF pt = 0
    THEN [raised |-> FALSE, status |-> "Active", flip |-> FALSE]
    ELSE LET e == ExistingVersion(s[pt])
         IN  IF ~e.ok
             THEN [raised |-> TRUE, status |-> "unset", flip |-> FALSE]
             ELSE IF Greater(incoming_version, e.val)
             THEN [raised |-> FALSE, status |-> "Active", flip |-> TRUE]
             ELSE IF Greater(e.val, incoming_version)
             THEN [raised |-> FALSE, status |-> "Inactive", flip |-> TRUE]
             ELSE [raised |-> FALSE, status |-> "Active", flip |-> FALSE]

\* _resolve_version_status after a successful scroll that returned point pt
\* (0: no point).  flip: _set_db_status_inactive is called.
\* raised: float() of the stored version raised.
ResolveVersionStatus(s, pt, incoming_version) ==
    IF pt = 0
    THEN [raised |-> FALSE, status |-> "Active", flip |-> FALSE]
    ELSE LET e == ExistingVersion(s[pt])
         IN  IF ~e.ok
             THEN [raised |-> TRUE, status |-> "unset", flip |-> FALSE]
             ELSE IF Greater(incoming_version, e.val)
             THEN [raised |-> FALSE, status |-> "Active", flip |-> TRUE]
             ELSE IF Greater(e.val, incoming_version)
             THEN [raised |-> FALSE, status |-> "Inactive", flip |-> FALSE]
             ELSE [raised |-> FALSE, status |-> "Active", flip |-> FALSE]

\* a stamping that marks a superseded batch with a third status value
StampThirdState(nodes, status) ==
    [i \in 1..Len(nodes) |->
        SetKey(nodes[i], "status",
               IF status = "Inactive" THEN "Superseded" ELSE status)]

\* for node in nodes: node.metadata["status"] = determined_status
Stamp(nodes, status) ==
    [i \in 1..Len(nodes) |-> SetKey(nodes[i], "status", status)]

\* first_node.metadata.get("document_number")
DocNum(nodes) == Get(nodes[1], "document_number", <<>>)

\* first_node.metadata.get("sop_title", "Unknown Title")
SopTitle(nodes) == Get(nodes[1], "sop_title", UnknownTitle)

\* the local variables of a client that runs no call
NoJob ==
    [op |-> "none", nodes |-> <<>>, status |-> "unset", flip |-> FALSE,
     queried |-> FALSE, outcome |-> "none", added |-> 0]

\* the local variables at the start of insert_nodes(nodes): status is
\* determined_status, flip is set when _set_db_status_inactive is to be
\* called, queried when the scroll has returned, added counts the nodes
\* uploaded so far, outcome becomes "index" (the index was returned), "none"
\* (None was returned) or "raised" (an exception left the call)
Call(j, nodes) ==
    [j EXCEPT !.op = "insert", !.nodes = nodes, !.status = "unset",
              !.flip = FALSE, !.queried = FALSE, !.outcome = "pending",
              !.added = 0]

\* insert_nodes(nodes) up to its first request: an empty batch returns None,
\* a batch with a document number goes on to the scroll of
\* _resolve_version_status, any other is Active and goes on to the write
InsertNodes(j, nodes) ==
    IF nodes = <<>>
    THEN [job |-> [Call(j, nodes) EXCEPT !.outcome = "none"],
          pc |-> "returned"]
    ELSE IF Truthy(nodes[1], "document_number")
    THEN [job |-> Call(j, nodes), pc |-> "scroll"]
    ELSE [job |-> [Call(j, nodes) EXCEPT !.status = "Active"],
          pc |-> "write"]

\* IndexingPipeline.run(nodes)
Run(j, nodes) ==
    IF nodes = <<>>
    THEN [job |-> [Call(j, nodes) EXCEPT !.outcome = "none"],
          pc |-> "returned"]
    ELSE InsertNodes(j, nodes)

\* an arbitration that guesses "Active" when the store cannot be queried
ScrollFailureDefaultsActive(j) ==
    [job |-> [j EXCEPT !.status = "Active"], pc |-> "write"]

\* client.scroll raises inside _resolve_version_status: nothing catches it
\* before it leaves insert_nodes
ScrollFailure(j) ==
    [job |-> [j EXCEPT !.outcome = "raised"], pc |-> "returned"]

\* the scroll returned point pt of store s (0: no point):
\* _resolve_version_status up to its return or its call of
\* _set_db_status_inactive
Resolved(s, j, pt) ==
    LET d == ResolveVersionStatus(s, pt, IncomingVersion(j.nodes[1]))
    IN  IF d.raised
        THEN [job |-> [j EXCEPT !.queried = TRUE, !.outcome = "raised"],
              pc |-> "returned"]
        ELSE [job |-> [j EXCEPT !.queried = TRUE, !.status = d.status,
                                !.flip = d.flip],
              pc |-> IF d.flip THEN "flip" ELSE "write"]

\* _set_db_status_inactive: the set_payload request went through or raised
Retired(s, j, ok) ==
    IF ok
    THEN [store |-> SetDbStatusInactive(s, DocNum(j.nodes), SopTitle(j.nodes)),
          job |-> j, pc |-> "write"]
    ELSE [store |-> s,
          job |-> [j EXCEPT !.status = "unset", !.outcome = "raised"],
          pc |-> "returned"]

\* VectorStoreIndex(nodes): the vector store uploads the stamped nodes in
\* batches of batch_size, one request each; a request that fails ends the
\* call with the exception and leaves the batches uploaded before it
Uploaded(s, j, ok) ==
    LET stamped == Stamp(j.nodes, j.status)
        upto == IF j.added + BATCH_SIZE < Len(j.nodes)
                THEN j.added + BATCH_SIZE ELSE Len(j.nodes)
    IN  IF ~ok
        THEN [store |-> s, job |-> [j EXCEPT !.outcome = "raised"],
              pc |-> "returned"]
        ELSE [store |-> s \o Slice(stamped, j.added + 1, upto),
              job |-> [j EXCEPT !.added = upto,
                                !.outcome = IF upto = Len(j.nodes)
                                            THEN "index" ELSE @],
              pc |-> IF upto = Len(j.nodes) THEN "returned" ELSE "write"]

\* the stores a call of insert_nodes(nodes) on store s leaves when every
\* request succeeds and no other client's request falls between them
Indexed(s, nodes) ==
    IF ~Truthy(nodes[1], "document_number")
    THEN {s \o Stamp(nodes, "Active")}
    ELSE {(IF r.job.flip
           THEN SetDbStatusInactive(s, DocNum(nodes), SopTitle(nodes))
           ELSE s) \o Stamp(nodes, r.job.status) :
          r \in {x \in {Resolved(s, Call(NoJob, nodes), pt) :
                          pt \in ScrollActive(s, DocNum(nodes),
                                              SopTitle(nodes))} :
                    x.pc # "returned"}}

(***************************************************************************)
(* The collection's configuration and QdrantManager.__init__               *)
(***************************************************************************)
\* self.vector_dim
VECTOR_DIM == 768

\* the collection as the server holds it: exists, dense (it has a
\* "text-dense" vector configuration) and the size of that configuration
Collection(exists, dense, size) ==
    [exists |-> exists, dense |-> dense, size |-> size]

\* the collection that ensure_collection_exists creates
Created == Collection(TRUE, TRUE, VECTOR_DIM)

\* client.create_collection on the server's collection c: the server
\* refuses a name that is taken, and the request may fail (create_ok = FALSE)
CreateCollection(c, create_ok) ==
    IF c.exists \/ ~create_ok
    THEN [raised |-> TRUE, collection |-> c]
    ELSE [raised |-> FALSE, collection |-> Created]

\* a check that accepts whatever collection it finds
AcceptAnyCollection(c) == FALSE

\* `if not dense_params or dense_params.size != self.vector_dim` on what
\* client.get_collection returned: the constructor raises ValueError
DimensionMismatch(c) == ~c.dense \/ c.size # VECTOR_DIM

(***************************************************************************)
(* The clients.  pc[w] = "idle": client w runs no call; "scroll", "flip",  *)
(* "write": its insert_nodes call stands before that request; "returned":  *)
(* its call is over and job[w] holds what the caller sees.                 *)
(***************************************************************************)
Workers == {1, 2}

NoCall ==
    [op |-> "none", nodes |-> <<>>, outcome |-> "none", queried |-> FALSE,
     status |-> "unset", base |-> 0, added |-> 0, q |-> 0,
     sources |-> <<>>]

\* the outcomes a request may have: TRUE, it goes through; FALSE, it raises
Outcomes == BOOLEAN

\* the nodes client w has still to upload in the call it runs
PendingOf(w) ==
    IF pc[w] \in {"scroll", "flip", "write"}
    THEN Len(job[w].nodes) - job[w].added ELSE 0

RECURSIVE Pending(_)
Pending(ws) ==
    IF ws = {} THEN 0
    ELSE LET w == CHOOSE x \in ws : TRUE
         IN  PendingOf(w) + Pending(ws \ {w})

\* the collection has room for the nodes of one more call
Room(nodes) == Len(store) + Pending(Workers) + Len(nodes) <= MaxStore

\* the scroll request of _resolve_version_status and what follows it up to
\* the next request
Scroll(w, oks) ==
    /\ pc[w] = "scroll"
    /\ \E ok \in oks :
        \E pt \in IF ok THEN ScrollActive(store, DocNum(job[w].nodes),
                                          SopTitle(job[w].nodes))
                  ELSE {0} :
            \E r \in {IF ok THEN Resolved(store, job[w], pt)
                      ELSE ScrollFailure(job[w])} :
                /\ job' = [job EXCEPT ![w] = r.job]
                /\ pc' = [pc EXCEPT ![w] = r.pc]
    /\ UNCHANGED <<store, last, collection>>

\* the set_payload request of _set_db_status_inactive
Flip(w, oks) ==
    /\ pc[w] = "flip"
    /\ \E ok \in oks :
        \E r \in {Retired(store, job[w], ok)} :
            /\ store' = r.store
            /\ job' = [job EXCEPT ![w] = r.job]
            /\ pc' = [pc EXCEPT ![w] = r.pc]
    /\ UNCHANGED <<last, collection>>

\* one upload request of VectorStoreIndex(nodes)
Upload(w, oks) ==
    /\ pc[w] = "write"
    /\ \E ok \in oks :
        \E r \in {Uploaded(store, job[w], ok)} :
            /\ store' = r.store
            /\ job' = [job EXCEPT ![w] = r.job]
            /\ pc' = [pc EXCEPT ![w] = r.pc]
    /\ UNCHANGED <<last, collection>>

\* the caller has seen what its call gave
Return(w) ==
    /\ pc[w] = "returned"
    /\ pc' = [pc EXCEPT ![w] = "idle"]
    /\ job' = [job EXCEPT ![w] = NoJob]
    /\ UNCHANGED <<store, last, collection>>

(***************************************************************************)
(* VersionManager (src/src/ingestion/versioning.py)                        *)
(***************************************************************************)
\* re.sub(TIMESTAMP_SUFFIX_PATTERN, "", filename): [A-Za-z]{3}\d{10,}$
\* ("$" matches at the end and before a newline that ends the string)
StripTimestamp(s) ==
    LET nl == s # <<>> /\ s[Len(s)] = "\n"
        t == IF nl THEN SubSeq(s, 1, Len(s) - 1) ELSE s
        d == TrailingRun(t, Digits)
        n == Len(t)
    IN  IF /\ d >= 10
           /\ n - d >= 3
           /\ \A j \in (n - d - 2)..(n - d) : t[j] \in Letters
        THEN Slice(t, 1, n - d - 3) \o (IF nl THEN <<"\n">> ELSE <<>>)
        ELSE s

\* s.rfind(c) counted from 1: the position of the last c in s, 0 if none
RECURSIVE RFind(_, _)
RFind(s, c) ==
    IF s = <<>> THEN 0
    ELSE IF s[Len(s)] = c THEN Len(s)
    ELSE RFind(SubSeq(s, 1, Len(s) - 1), c)

\* Path(path).name: the last component of the path that is neither empty
\* nor ".", the empty string when there is none
RECURSIVE PathName(_)
PathName(path) ==
    LET p == RFind(path, "/")
        part == Slice(path, p + 1, Len(path))
    IN  IF part \notin {<<>>, <<".">>} THEN part
        ELSE IF p = 0 THEN <<>>
        ELSE PathName(SubSeq(path, 1, p - 1))

\* Path(path).stem: the name up to its last ".", the whole name when that
\* "." is its first or its last character
PathStem(path) ==
    LET name == PathName(path)
        p == RFind(name, ".")
    IN  IF 1 < p /\ p < Len(name) THEN Slice(name, 1, p - 1) ELSE name

\* last position of a match of DUPLICATE_PATTERN \s*\(\d+\)(\s*\d+)? that
\* starts at position i, 0 if there is none
DupMatchEnd(s, i) ==
    LET j  == i + RunLen(s, i, WhiteSpace)
        d  == RunLen(s, j + 1, Digits)
        m  == j + 1 + d
        w2 == RunLen(s, m + 1, WhiteSpace)
        d2 == RunLen(s, m + 1 + w2, Digits)
    IN  IF /\ j <= Len(s) /\ s[j] = "("
           /\ d >= 1
           /\ m <= Len(s) /\ s[m] = ")"
        THEN IF d2 >= 1 THEN m + w2 + d2 ELSE m
        ELSE 0

\* re.sub(DUPLICATE_PATTERN, "", stem), scanning from position i
RECURSIVE RemoveDuplicates(_, _)
RemoveDuplicates(s, i) ==
    IF i > Len(s) THEN <<>>
    ELSE LET e == DupMatchEnd(s, i)
         IN  IF e > 0 THEN RemoveDuplicates(s, e + 1)
             ELSE <<s[i]>> \o RemoveDuplicates(s, i + 1)

\* _clean_stem(filename)
CleanStem(filename) ==
    Strip(RemoveDuplicates(PathStem(StripTimestamp(filename)), 1))

\* the alternatives (v|ver|rev|version), in the order the pattern tries them
VersionWords == << <<"v">>, <<"v","e","r">>, <<"r","e","v">>,
                   <<"v","e","r","s","i","o","n">> >>

\* last position of \d+(\.\d+)* matched greedily from position j (a digit)
RECURSIVE NumEnd(_, _)
NumEnd(s, j) ==
    LET e == j + RunLen(s, j, Digits) - 1
    IN  IF e + 1 <= Len(s) /\ s[e + 1] = "." /\ RunLen(s, e + 2, Digits) >= 1
        THEN NumEnd(s, e + 2)
        ELSE e

\* first position of the number when EXPLICIT_VERSION_PATTERN matches at i
\* with the k-th alternative, 0 if it does not: [\-_ ] word [\.\-_]? \d+
ExplicitAt(s, i, k) ==
    LET w == VersionWords[k]
        j == i + 1 + Len(w)
    IN  IF /\ s[i] \in {"-", "_", " "}
           /\ j - 1 <= Len(s)
           /\ Lower(Slice(s, i + 1, j - 1)) = w
        THEN IF /\ j <= Len(s) /\ s[j] \in {".", "-", "_"}
                /\ RunLen(s, j + 1, Digits) >= 1
             THEN j + 1
             ELSE IF RunLen(s, j, Digits) >= 1 THEN j ELSE 0
        ELSE 0

\* EXPLICIT_VERSION_PATTERN.search(s): the leftmost match, and at that
\* position the first alternative that matches
ExplicitSearch(s) ==
    LET hits == {i \in 1..Len(s) : \E k \in 1..4 : ExplicitAt(s, i, k) > 0}
    IN  IF hits = {} THEN [found |-> FALSE, start |-> 0, group2 |-> <<>>]
        ELSE LET i == CHOOSE x \in hits : \A y \in hits : x <= y
                 k == CHOOSE x \in 1..4 :
                        /\ ExplicitAt(s, i, x) > 0
                        /\ \A y \in 1..4 : ExplicitAt(s, i, y) > 0 => x <= y
                 j == ExplicitAt(s, i, k)
             IN  [found |-> TRUE, start |-> i,
                  group2 |-> Slice(s, j, NumEnd(s, j))]

\* IMPLICIT_ID_PATTERN.search(s): [\-_](\d{2,3})$
\* ("$" matches at the end and before a newline that ends the string)
ImplicitSearch(str) ==
    LET s == IF str # <<>> /\ str[Len(str)] = "\n"
             THEN SubSeq(str, 1, Len(str) - 1) ELSE str
        n == Len(s)
        d == TrailingRun(s, Digits)
    IN  IF d = 3 /\ n >= 4 /\ s[n - 3] \in {"-", "_"}
        THEN [found |-> TRUE, start |-> n - 3, group1 |-> Slice(s, n - 2, n)]
        ELSE IF d = 2 /\ n >= 3 /\ s[n - 2] \in {"-", "_"}
        THEN [found |-> TRUE, start |-> n - 2, group1 |-> Slice(s, n - 1, n)]
        ELSE [found |-> FALSE, start |-> 0, group1 |-> <<>>]

NOISE_WORDS ==
    { <<"s","t","a","m","p","e","d">>,
      <<"s","i","g","n","e","d">>,
      <<"d","r","a","f","t">>,
      <<"f","i","n","a","l">>,
      <<"e","n","g","l","i","s","h">>,
      <<"i","t","a","l","i","a","n">>,
      <<"c","o","p","y">> }

\* str.split(): the whitespace-separated tokens of s
RECURSIVE Split(_)
Split(s) ==
    LET t == LStrip(s)
        k == CHOOSE x \in 0..Len(t) :
                /\ \A y \in 1..x : t[y] \notin WhiteSpace
                /\ (x < Len(t) => t[x + 1] \in WhiteSpace)
    IN  IF t = <<>> THEN <<>>
        ELSE <<Slice(t, 1, k)>> \o Split(Slice(t, k + 1, Len(t)))

\* " ".join(tokens)
RECURSIVE Join(_)
Join(tokens) ==
    IF tokens = <<>> THEN <<>>
    ELSE IF Len(tokens) = 1 THEN tokens[1]
    ELSE tokens[1] \o <<" ">> \o Join(Tail(tokens))

\* _clean_title(raw_title)
CleanTitle(raw_title) ==
    LET title == [i \in 1..Len(raw_title) |->
                    IF raw_title[i] \in {"_", "-"} THEN " " ELSE raw_title[i]]
        clean_tokens == SelectSeq(Split(title),
                                  LAMBDA t : Lower(t) \notin NOISE_WORDS)
    IN  Strip(Join(clean_tokens))

\* _normalize_version(version_str): the float, 0.0 on ValueError
NormalizeVersion(version_str) ==
    LET clean == SelectSeq(version_str, LAMBDA c : c \in Digits \cup {"."})
        r == ParseFloat(clean)
    IN  IF r.ok THEN r.val ELSE Zero

\* extract_metadata(file_path)
ExtractMetadata(file_path) ==
    LET original_filename == PathName(file_path)
        clean_stem == CleanStem(original_filename)
        e == ExplicitSearch(clean_stem)
        m == ImplicitSearch(clean_stem)
        version_str == IF e.found THEN e.group2
                       ELSE IF m.found THEN m.group1
                       ELSE <<"1", ".", "0">>
        title == IF e.found THEN Slice(clean_stem, 1, e.start - 1)
                 ELSE IF m.found THEN Slice(clean_stem, 1, m.start - 1)
                 ELSE clean_stem
    IN  [sop_title |-> CleanTitle(title),
         version_original |-> version_str,
         version_float |-> NormalizeVersion(version_str),
         file_name |-> original_filename,
         file_path |-> file_path]

(***************************************************************************)
(* Regular expressions as Python's re matches them.  A pattern is a        *)
(* sequence of items: a character class with a greedy quantifier, a word,  *)
(* a group of alternatives with a quantifier, "^", "$" or a negative       *)
(* lookbehind.                                                             *)
(* hi = 0 stands for a quantifier without an upper limit.                  *)
(***************************************************************************)
In(S, lo, hi) == [t |-> "in", s |-> S, lo |-> lo, hi |-> hi]

NotIn(S, lo, hi) == [t |-> "notin", s |-> S, lo |-> lo, hi |-> hi]

Group(alts, lo, hi) == [t |-> "group", alts |-> alts, lo |-> lo, hi |-> hi]

\* "^" and "$"; ml: the pattern is compiled with re.MULTILINE
Bol(ml) == [t |-> "bol", ml |-> ml]

Eol(ml) == [t |-> "eol", ml |-> ml]

\* (?<!c) for the characters c of S
NotAfter(S) == [t |-> "notafter", s |-> S]

\* "." without re.DOTALL
AnyChar(lo, hi) == NotIn({"\n"}, lo, hi)

\* the characters of a word as they are written
Word(w) == <<[t |-> "word", w |-> w, ic |-> FALSE]>>

\* the characters of a word under re.IGNORECASE
WordIC(w) == <<[t |-> "word", w |-> Lower(w), ic |-> TRUE]>>

\* (w1|w2|...) under re.IGNORECASE
WordsIC(words) == Group([k \in 1..Len(words) |-> WordIC(words[k])], 1, 1)

\* number of characters from position i on that item x takes at most
RunOf(x, text, i) ==
    LET stop(k) == \/ i + k > Len(text)
                   \/ (text[i + k] \in x.s) # (x.t = "in")
                   \/ x.hi > 0 /\ k = x.hi
    IN  CHOOSE k \in 0..(Len(text) - i + 1) :
            stop(k) /\ \A j \in 0..(k - 1) : ~stop(j)

\* the position after the match of pattern r that starts at position i of
\* text, -1 when there is none: the first match in the order in which a
\* backtracking matcher tries them (longer repetitions before shorter ones,
\* the alternatives of a group from left to right)
RECURSIVE Match(_, _, _)
Match(r, text, i) ==
    IF Len(r) = 0 THEN i
    ELSE
    LET x == Head(r)
        rest == Tail(r)
        n == Len(text)
    IN  IF x.t = "bol"
        THEN IF i = 1 \/ (x.ml /\ text[i - 1] = "\n")
             THEN Match(rest, text, i) ELSE -1
        ELSE IF x.t = "eol"
        THEN IF \/ i = n + 1
                \/ i = n /\ text[n] = "\n"
                \/ x.ml /\ i <= n /\ text[i] = "\n"
             THEN Match(rest, text, i) ELSE -1
        ELSE IF x.t = "notafter"
        THEN IF i > 1 /\ text[i - 1] \in x.s
             THEN -1 ELSE Match(rest, text, i)
        ELSE IF x.t = "word"
        THEN LET e == i + Len(x.w)
                 found == Slice(text, i, e - 1)
             IN  IF e <= n + 1 /\ x.w = (IF x.ic THEN Lower(found) ELSE found)
                 THEN Match(rest, text, e) ELSE -1
        ELSE IF x.t = "group"
        THEN LET again == IF x.hi = 1 THEN <<>>
                          ELSE <<[x EXCEPT !.lo = 0]>>
                 tries == [k \in 1..Len(x.alts) |->
                            Match(x.alts[k] \o again \o rest, text, i)]
                 hits == {k \in 1..Len(x.alts) : tries[k] # -1}
             IN  IF hits # {}
                 THEN tries[CHOOSE k \in hits : \A j \in hits : k <= j]
                 ELSE IF x.lo = 0 THEN Match(rest, text, i) ELSE -1
        ELSE LET ks == {k \in x.lo..RunOf(x, text, i) :
                            Match(rest, text, i + k) # -1}
             IN  IF ks = {} THEN -1
                 ELSE Match(rest, text,
                            i + (CHOOSE k \in ks : \A j \in ks : j <= k))

\* re.sub(r, repl, text) from position i on, for a pattern that matches no
\* empty string; keep: the replacement ends with the matched text (\1 of a
\* pattern that is one group)
RECURSIVE Sub(_, _, _, _, _)
Sub(r, repl, keep, text, i) ==
    LET hits == {j \in i..Len(text) : Match(r, text, j) > j}
    IN  IF hits = {} THEN Slice(text, i, Len(text))
        ELSE LET j == CHOOSE h \in hits : \A k \in hits : h <= k
                 e == Match(r, text, j)
             IN  Slice(text, i, j - 1) \o repl
                 \o (IF keep THEN SubSeq(text, j, e - 1) ELSE <<>>)
                 \o Sub(r, repl, keep, text, e)

\* text.split("\n")
RECURSIVE SplitLines(_)
SplitLines(text) ==
    LET k == RunOf(AnyChar(0, 0), text, 1)
    IN  IF k = Len(text) THEN <<text>>
        ELSE <<Slice(text, 1, k)>> \o SplitLines(Slice(text, k + 2, Len(text)))

\* "\n".join(lines)
RECURSIVE JoinLines(_)
JoinLines(lines) ==
    IF lines = <<>> THEN <<>>
    ELSE IF Len(lines) = 1 THEN lines[1]
    ELSE lines[1] \o <<"\n">> \o JoinLines(Tail(lines))

RECURSIVE Flatten(_)
Flatten(lists) ==
    IF lists = <<>> THEN <<>> ELSE Head(lists) \o Flatten(Tail(lists))

\* text.find(sub) counted from 1: the first position of sub, 0 if none
Find(text, sub) ==
    LET hits == {p \in 1..(Len(text) - Len(sub) + 1) :
                    SubSeq(text, p, p + Len(sub) - 1) = sub}
    IN  IF hits = {} THEN 0 ELSE CHOOSE p \in hits : \A j \in hits : p <= j

(***************************************************************************)
(* DocumentCleaner (src/src/ingestion/cleaner.py)                          *)
(***************************************************************************)
\* self.header_patterns, used with flags=re.IGNORECASE
HEADER_PATTERNS ==
    << WordIC(<<"G","R","U","N","E","N","T","H","A","L">>)
       \o <<In(WhiteSpace, 1, 0), In(Letters, 2, 2), In({"-"}, 1, 1),
            In(Letters, 2, 2), In({"-"}, 1, 1), In(Digits, 3, 3),
            In({"-"}, 1, 1), In(Digits, 4, 4), In({"-"}, 1, 1),
            In(Digits, 2, 2)>>,
       WordIC(<<"p","a","g","e">>)
       \o <<In(WhiteSpace, 1, 0), In(Digits, 1, 0), In(WhiteSpace, 1, 0)>>
       \o WordIC(<<"o","f">>)
       \o <<In(WhiteSpace, 1, 0), In(Digits, 1, 0)>>,
       WordIC(<<"T","h","i","s"," ","i","s"," ","a","n"," ","u","n","c",
               "o","n","t","r","o","l","l","e","d"," ","c","o","p","y"," ",
               "v","a","l","i","d"," ","f","o","r">>)
       \o <<AnyChar(0, 0)>>,
       WordIC(<<"P","r","i","n","t","e","d"," ","o","n",":">>) \o <<AnyChar(0, 0)>> >>

\* self.noise_patterns, matched against the stripped line without flags
NOISE_PATTERNS ==
    << <<Bol(FALSE), In({"#"}, 1, 1), In(WhiteSpace, 0, 0), Eol(FALSE)>>,
       <<Bol(FALSE), In({"-", "_", "*"}, 3, 0), Eol(FALSE)>>,
       <<Bol(FALSE), In(WhiteSpace, 0, 0), In({">"}, 1, 1),
         In(WhiteSpace, 0, 0), Eol(FALSE)>> >>

OfOrDi == WordsIC(<< <<"o","f">>, <<"d","i">> >>)

\* self.removal_patterns in the order of the dictionary: page_numbers,
\* status_headers, signatures, filled_dates, disclaimers, toc_lines,
\* empty_table_rows, separators, empty_links, nbsp
REMOVAL_PATTERNS ==
    << <<Group(
          << <<Group(<<WordIC(<<"P","a","g","e">>), WordIC(<<"P","a","g","i","n","a">>),
                       WordIC(<<"P","a","g">>) \o <<In({"."}, 0, 1)>> >>, 1, 1),
               In(WhiteSpace, 1, 0), In(Digits, 1, 0), In(WhiteSpace, 1, 0),
               OfOrDi, In(WhiteSpace, 1, 0), In(Digits, 1, 0)>>,
             <<In(Digits, 1, 0), In(WhiteSpace, 1, 0), OfOrDi,
               In(WhiteSpace, 1, 0), In(Digits, 1, 0)>>,
             <<WordsIC(<<<<"P","a","g","e">>, <<"P","a","g","i","n","a">>>>),
               In(WhiteSpace, 1, 0), In(Digits, 1, 0), Eol(TRUE)>> >>,
          1, 1)>>,
       <<Bol(TRUE),
         WordsIC(<<<<"E","f","f","e","c","t","i","v","e"," ","D","a","t",
                  "e">>,
                   <<"R","e","v","i","e","w"," ","D","a","t","e">>,
                   <<"A","p","p","r","o","v","e","d"," ","B","y">>,
                   <<"S","O","P"," ","N","o">>,
                   <<"V","e","r","s","i","o","n">>,
                   <<"S","u","p","e","r","s","e","d","e","s">>,
                   <<"D","o","c","u","m","e","n","t"," ","N","o">>,
                   <<"D","a","t","a">>,
                   <<"D","a","t","a"," ","d","i"," ","e","f","f","i","c","a",
                  "c","i","a">>,
                   <<"D","a","t","a"," ","d","i"," ","r","e","v","i","s","i",
                  "o","n","e">>,
                   <<"A","p","p","r","o","v","a","t","o"," ","d","a">>,
                   <<"N","."," ","S","O","P">>,
                   <<"V","e","r","s","i","o","n","e">>,
                   <<"S","o","s","t","i","t","u","i","s","c","e">>>>),
         In({":"}, 1, 1), AnyChar(0, 0), Eol(TRUE)>>,
       <<WordsIC(<<<<"S","i","g","n","a","t","u","r","e">>,
                   <<"D","a","t","e">>,
                   <<"N","a","m","e">>,
                   <<"P","r","e","p","a","r","e","d"," ","b","y">>,
                   <<"R","e","v","i","e","w","e","d"," ","b","y">>,
                   <<"A","p","p","r","o","v","e","d"," ","b","y">>,
                   <<"F","i","r","m","a">>,
                   <<"D","a","t","a">>,
                   <<"N","o","m","e">>,
                   <<"P","r","e","p","a","r","a","t","o"," ","d","a">>,
                   <<"R","e","v","i","s","i","o","n","a","t","o"," ","d",
                  "a">>,
                   <<"A","p","p","r","o","v","a","t","o"," ","d","a">>>>),
         In({":"}, 1, 1), In(WhiteSpace, 0, 0), In({"_"}, 3, 0),
         AnyChar(0, 0)>>,
       <<WordsIC(<<<<"D","a","t","e">>, <<"D","a","t","a">>>>),
         In({":"}, 1, 1), In(WhiteSpace, 0, 0), In(Digits, 1, 4),
         In({"-", "/", "."}, 1, 1), In(Digits, 1, 2),
         In({"-", "/", "."}, 1, 1), In(Digits, 1, 4)>>,
       <<Group(
          << WordIC(<<"T","h","i","s"," ","i","s"," ","a","n"," ","u","n","c",
                  "o","n","t","r","o","l","l","e","d"," ","c","o","p","y">>)
             \o <<AnyChar(0, 0)>>,
             WordIC(<<"C","o","n","f","i","d","e","n","t","i","a","l"," ","P",
                  "r","o","p","e","r","t","y"," ","o","f">>)
             \o <<AnyChar(0, 0)>>,
             WordIC(<<"N","o"," ","p","a","r","t"," ","o","f"," ","t","h","i",
                  "s"," ","d","o","c","u","m","e","n","t">>)
             \o <<AnyChar(0, 0)>>,
             WordIC(<<"Q","u","e","s","t","a"," ","è"," ","u","n","a"," ","c",
                  "o","p","i","a"," ","n","o","n"," ","c","o","n","t","r",
                  "o","l","l","a","t","a">>)
             \o <<AnyChar(0, 0)>>,
             WordIC(<<"P","r","o","p","r","i","e","t","à"," ","r","i","s","e",
                  "r","v","a","t","a">>)
             \o <<AnyChar(0, 0)>>,
             WordIC(<<"S","t","a","m","p","a","t","o"," ","i","l",":">>) \o <<AnyChar(0, 0)>> >>,
          1, 1)>>,
       <<AnyChar(5, 0), In({"."}, 4, 0), In(WhiteSpace, 0, 0),
         In(Digits, 1, 0), In(WhiteSpace, 0, 0), Eol(TRUE)>>,
       <<Bol(TRUE), In(WhiteSpace, 0, 0), In({"|"}, 1, 1),
         Group(<< <<In(WhiteSpace, 0, 0), In({"|"}, 1, 1)>> >>, 1, 0),
         In(WhiteSpace, 0, 0), Eol(TRUE)>>,
       <<Bol(TRUE), In({"-", "_"}, 3, 0), Eol(TRUE)>>,
       <<Group(<<Word(<<"!","[","]","(",")">>), Word(<<"[","]">>)>>,
               1, 1)>>,
       Word(<<" ">>) >>

\* self.fmt_patterns["header_spacing"]: (?<!\n)(#{2,6}\s)
HEADER_SPACING == <<NotAfter({"\n"}), In({"#"}, 2, 6), In(WhiteSpace, 1, 1)>>

\* \n{3,}
EXCESS_NEWLINES == <<In({"\n"}, 3, 0)>>

\* the loop over self.header_patterns from the k-th on: the substitution,
\* the removal of the noise lines and the collapse of the newlines
RECURSIVE RemoveHeaders(_, _)
RemoveHeaders(cleaned_text, k) ==
    IF k > Len(HEADER_PATTERNS) THEN cleaned_text
    ELSE LET is_noise(line) ==
                \E j \in 1..Len(NOISE_PATTERNS) :
                    Match(NOISE_PATTERNS[j], Strip(line), 1) # -1
             cleaned_lines(subbed) ==
                SelectSeq(SplitLines(subbed), LAMBDA line : ~is_noise(line))
         IN  \* each assignment to cleaned_text is a value before the next
             \* pass reads it
             CHOOSE out \in
                {RemoveHeaders(collapsed, k + 1) :
                    collapsed \in
                        {Sub(EXCESS_NEWLINES, <<"\n", "\n">>, FALSE,
                             JoinLines(cleaned_lines(subbed)), 1) :
                            subbed \in {Sub(HEADER_PATTERNS[k], <<>>, FALSE,
                                            cleaned_text, 1)}}} : TRUE

\* the loop over self.removal_patterns from the k-th on
RECURSIVE Remove(_, _)
Remove(cleaned_text, k) ==
    IF k > Len(REMOVAL_PATTERNS) THEN cleaned_text
    ELSE CHOOSE out \in
            {Remove(subbed, k + 1) :
                subbed \in {Sub(REMOVAL_PATTERNS[k], <<>>, FALSE,
                                cleaned_text, 1)}} : TRUE

\* DocumentCleaner.clean_text(text): the header loop, the removal loop, the
\* two blank lines before a header and the collapse of blank lines, each on
\* the text the step before it left
DocumentCleanerCleanText(text) ==
    IF text = <<>> THEN <<>>
    ELSE CHOOSE out \in
            {Strip(Sub(EXCESS_NEWLINES, <<"\n", "\n">>, FALSE, spaced, 1)) :
                spaced \in
                    {Sub(HEADER_SPACING, <<"\n", "\n">>, TRUE, removed, 1) :
                        removed \in
                            {Remove(headless, 1) :
                                headless \in {RemoveHeaders(text, 1)}}}} :
            TRUE

\* DocumentCleaner.clean_documents(documents): the cover page (index 0) is
\* dropped, every other page is cleaned and dropped when at most 50
\* characters are left; a page that stays keeps a copy of its metadata
CleanDocuments(documents) ==
    LET rest == Slice(documents, 2, Len(documents))
        new == [i \in 1..Len(rest) |->
                    [text |-> DocumentCleanerCleanText(rest[i].text),
                     metadata |-> rest[i].metadata]]
    IN  SelectSeq(new, LAMBDA doc : Len(Strip(doc.text)) > 50)

(***************************************************************************)
(* PDFLoader (src/src/ingestion/loader.py): nodes keyed by the document    *)
(* number, title and version of the sop_meta the page processors are       *)
(* given.                                                                  *)
(***************************************************************************)
Unknown == <<"U","n","k","n","o","w","n">>

RECURSIVE IntToStr(_)
IntToStr(n) ==
    LET c == CHOOSE x \in Digits : DigitVal(x) = n % 10
    IN  IF n < 10 THEN <<c>> ELSE IntToStr(n \div 10) \o <<c>>

\* s.replace(old, new)
RECURSIVE Replace(_, _, _)
Replace(s, old, new) ==
    IF Len(s) < Len(old) \/ old = <<>> THEN s
    ELSE IF SubSeq(s, 1, Len(old)) = old
    THEN new \o Replace(Slice(s, Len(old) + 1, Len(s)), old, new)
    ELSE <<Head(s)>> \o Replace(Tail(s), old, new)

\* detect_language(sample_text); detected: what langdetect's detect gives
\* for a sample of more than 50 characters ("unknown": it raised
\* LangDetectException)
DetectLanguage(sample_text, detected) ==
    IF Len(Strip(sample_text)) > 50 THEN detected ELSE "en"

\* _normalize_text(text)
NormalizeText(text) == Join(Split(Lower(text)))

\* what the five _process_<language>_pages differ in: the phrases that make
\* them skip a page and the phrase at which they cut a page
LANGUAGE_PHRASES ==
    [en |-> [skip |-> {<<"s","t","a","n","d","a","r","d"," ","o","p","e",
                        "r","a","t","i","n","g"," ","p","r","o","c","e","d",
                        "u","r","e">>,
                       <<"t","a","b","l","e"," ","o","f"," ","c","o","n",
                        "t","e","n","t","s">>},
             cut |-> <<"h","i","s","t","o","r","i","c","a","l"," ","i","n",
                    "d","e","x">>],
     de |-> [skip |-> {<<"s","t","a","n","d","a","r","d","a","r","b","e",
                        "i","t","s","a","n","w","e","i","s","u","n","g">>,
                       <<"i","n","h","a","l","t","s","v","e","r","z","e",
                        "i","c","h","n","i","s">>},
             cut |-> <<"h","i","s","t","o","r","i","e","n","i","n","d","e",
                    "x">>],
     it |-> [skip |-> {<<"p","r","o","c","e","d","u","r","a"," ","o","p",
                        "e","r","a","t","i","v","a"," ","s","t","a","n","d",
                        "a","r","d">>,
                       <<"s","o","m","m","a","r","i","o">>,
                       <<"i","n","d","i","c","e"," ","d","e","i"," ","c",
                        "o","n","t","e","n","u","t","i">>},
             cut |-> <<"i","n","d","i","c","e"," ","s","t","o","r","i","c",
                    "o">>],
     pt |-> [skip |-> {<<"p","r","o","c","e","d","i","m","e","n","t","o",
                        " ","o","p","e","r","a","c","i","o","n","a","l"," ",
                        "p","a","d","r","ã","o">>,
                       <<"í","n","d","i","c","e">>,
                       <<"s","u","m","á","r","i","o">>},
             cut |-> <<"h","i","s","t","ó","r","i","c","o">>],
     es |-> [skip |-> {<<"p","r","o","c","e","d","i","m","i","e","n","t",
                        "o"," ","o","p","e","r","a","t","i","v","o"," ","e",
                        "s","t","á","n","d","a","r">>,
                       <<"c","o","n","t","e","n","i","d","o">>},
             cut |-> <<"h","i","s","t","o","r","i","a","l"," ","d","e"," ",
                    "c","a","m","b","i","o","s">>]]

\* clean_text(raw_text) of the loader: the function it imports from the
\* cleaner module, which holds the cleaner's method of that name
LoaderCleanText(raw_text) == DocumentCleanerCleanText(raw_text)

\* the TextNode metadata _create_and_append_node builds for page index i
CreateNode(cleaned_original, i, file_name, sop_meta) ==
    LET page_label == <<"P","a","g","e"," ">> \o IntToStr(i + 1)
        fallback == Replace(Replace(file_name, <<".","p","d","f">>, <<>>),
                            <<"_">>, <<" ">>)
    IN  [file_name |-> file_name,
         page_label |-> page_label,
         sop_title |-> IF Truthy(sop_meta, "document_title")
                       THEN sop_meta["document_title"] ELSE fallback,
         original_text |-> <<"S","o","u","r","c","e",":"," ">> \o file_name
                           \o <<",", " ">> \o page_label \o <<".", "\n">>
                           \o cleaned_original,
         document_number |-> Get(sop_meta, "document_number", Unknown),
         version_number |-> Get(sop_meta, "version_number", Unknown),
         status |-> "Active",
         language |-> Get(sop_meta, "language", "unknown")]

\* the body of the page loop of _process_english_pages and its four
\* siblings for page index i with text raw_text: the page is skipped when
\* it holds one of the phrases, cut at the cut phrase, cleaned, and skipped
\* when nothing is left
ProcessPage(raw_text, i, file_name, sop_meta, phrases) ==
    LET logic_view == NormalizeText(raw_text)
        index_pos == Find(Lower(raw_text), phrases.cut)
        cut_text ==
            IF Find(logic_view, phrases.cut) > 0 /\ index_pos > 0
            THEN Slice(raw_text, 1, index_pos - 1) ELSE raw_text
    IN  IF \E phrase \in phrases.skip : Find(logic_view, phrase) > 0
        THEN <<>>
        ELSE CHOOSE out \in
                {IF cleaned_original = <<>> THEN <<>>
                 ELSE <<CreateNode(cleaned_original, i, file_name,
                                   sop_meta)>> :
                    cleaned_original \in {LoaderCleanText(cut_text)}} : TRUE

\* _process_english_pages(doc, file_name, sop_meta) and its four siblings:
\* the loop over the pages, page index 0 skipped
ProcessPages(doc, file_name, sop_meta, phrases) ==
    Flatten([i \in 1..(Len(doc) - 1) |->
                ProcessPage(doc[i + 1], i, file_name, sop_meta, phrases)])

\* load_pdf(pdf_path) on a file whose pages hold the texts doc (opens:
\* the path exists and fitz opens it).  outcome "list": a list of nodes is
\* returned, "IndexError": doc[1] or doc[2] raised, "AttributeError":
\* VersionManager has no extract_sop_metadata, so that the call of it
\* raises and no page processor is reached
LoadPdf(pdf_path, opens, doc) ==
    IF ~opens THEN [outcome |-> "list", nodes |-> <<>>]
    ELSE IF Len(doc) < 3 THEN [outcome |-> "IndexError", nodes |-> <<>>]
    ELSE [outcome |-> "AttributeError", nodes |-> <<>>]

(***************************************************************************)
(* IngestionPipeline.process_file (src/src/ingestion/__init__.py)          *)
(***************************************************************************)
\* loader.load_file(file_path, metadata=metadata): one document per page,
\* each carrying the page's text, the file's metadata and its page label
LoadFile(metadata, pages) ==
    [i \in 1..Len(pages) |->
        [text |-> pages[i],
         metadata |-> SetKey(metadata, "page_label", IntToStr(i))]]

\* SOPChunker.chunk_documents on documents that give one block each: every
\* node keeps a copy of the document's metadata plus context_header
GeneralSection == <<"G","e","n","e","r","a","l"," ","S","e","c","t","i","o","n">>

ChunkDocuments(documents) ==
    [i \in 1..Len(documents) |->
        SetKey(documents[i].metadata, "context_header", GeneralSection)]

\* process_file(file_path): the nodes, [] when nothing was loaded or when
\* a stage raised
ProcessFile(file_path, pages, fails) ==
    LET metadata == ExtractMetadata(file_path)
        documents == LoadFile(metadata, pages)
    IN  IF fails \/ documents = <<>> THEN <<>>
        ELSE ChunkDocuments(CleanDocuments(documents))

(***************************************************************************)
(* FASAEngine.query (src/src/rag/retriever.py)                             *)
(***************************************************************************)
SIMILARITY_TOP_K == 7

\* SimilarityPostprocessor(cutoff=0.05), in thousandths
CUTOFF == 50

\* a filter that asks for a status, whatever its value
StatusFilterAny(p) == HasKey(p, "status")

\* a retriever built without the status filter
ActiveFilterMissing(p) == TRUE

\* MetadataFilters([MetadataFilter(key="status", value="Active")])
ActiveFilter(p) == HasKey(p, "status") /\ p["status"] = "Active"

\* the hybrid score of stored point i for query q, in thousandths: the
\* q-th point is the best match, earlier points sit on the relevance floor
\* and later points below it
Score(q, i) == IF i = q THEN 900 ELSE IF i < q THEN CUTOFF ELSE CUTOFF - 20

\* the candidates in descending order of score (ties: insertion order)
RECURSIVE Ranked(_, _)
Ranked(q, cands) ==
    IF cands = {} THEN <<>>
    ELSE LET i == CHOOSE x \in cands :
                    \A y \in cands :
                        \/ Score(q, x) > Score(q, y)
                        \/ (Score(q, x) = Score(q, y) /\ x <= y)
         IN  <<i>> \o Ranked(q, cands \ {i})

\* the retriever: filtered to Active, best similarity_top_k first
Retrieve(s, q) ==
    LET cands == {i \in 1..Len(s) : ActiveFilter(s[i])}
        r == Ranked(q, cands)
    IN  Slice(r, 1, IF Len(r) < SIMILARITY_TOP_K THEN Len(r)
                    ELSE SIMILARITY_TOP_K)

\* cutoff_processor: nodes scoring below the cutoff are dropped
CutoffProcessor(q, r) == SelectSeq(r, LAMBDA i : Score(q, i) >= CUTOFF)

\* the source_info of stored point i; point is the stored point it came from
SourceInfo(s, q, i) ==
    [point |-> i,
     sop_title |-> Get(s[i], "sop_title", <<"U","n","k","n","o","w","n"," ","S","O","P">>),
     file_name |-> Get(s[i], "file_name", <<"N","/","A">>),
     page |-> Get(s[i], "page_label", <<"N","/","A">>),
     score |-> Score(q, i)]

\* query(query_text): q = 0 is a blank query text; ok = FALSE when the
\* query engine raises.  The result is what the caller sees: outcome and
\* the list of sources.
QueryResult(s, q, ok) ==
    LET r == CutoffProcessor(q, Retrieve(s, q))
        res(outcome, sources) ==
            [op |-> "query", nodes |-> <<>>, outcome |-> outcome,
             queried |-> FALSE, status |-> "unset", flip |-> FALSE,
             added |-> 0, q |-> q, sources |-> sources]
    IN  IF q = 0 THEN res("invalid", <<>>)
        ELSE IF ~ok THEN res("error", <<>>)
        ELSE res("answer", [k \in 1..Len(r) |-> SourceInfo(s, q, r[k])])

(***************************************************************************)
(* Inputs                                                                  *)
(***************************************************************************)
D1 == <<"D", "1">>

T1 == <<"T", "1">>

\* version strings of the revisions of a document
RawVersions == {<<"1">>, <<"2">>, <<"1", "0">>}

\* the sop_meta a page processor is given: always a title, a version and
\* the language, and a document number or none
SopMetas ==
    {[document_title |-> T1, document_number |-> D1, version_number |-> v,
      language |-> "en"] : v \in RawVersions}
    \cup {[document_title |-> T1, version_number |-> v, language |-> "en"] :
            v \in RawVersions}

PdfName(sop_meta) ==
    T1 \o <<"_">> \o sop_meta["version_number"] \o <<".","p","d","f">>

\* the text of the first page of a document
Cover == <<"F","A","S","A"," ","T","1">>

\* the text of page i of the PDF of a revision: the first content page
\* differs between the revisions, the later pages do not
PageText(version_number, i) ==
    IF i # 2
    THEN <<"C","l","e","a","n"," ","t","h","e"," ","R","o","o","m",".">>
    ELSE IF version_number = <<"1">>
    THEN <<"W","e","a","r"," ","G","l","o","v","e","s",".">>
    ELSE IF version_number = <<"2">>
    THEN <<"W","e","a","r"," ","m","a","s","k","s",".">>
    ELSE <<"G","l","o","v","e","s",","," ","m","a","s","k","s",".">>

\* a page that lists the sections of the document
TocPage == <<"1","."," ","T","a","b","l","e"," ","o","f"," ","C","o","n","t",
        "e","n","t","s">>

\* a page in French, long enough for the language detection to look at it
FrenchPage ==
    <<"L","e","s"," ","o","p","e","r","a","t","e","u","r","s"," ","s","e",
    " ","l","a","v","e","n","t"," ","e","t"," ","s","e"," ","s","e","c","h",
    "e","n","t"," ","l","e","s"," ","m","a","i","n","s"," ","a","v","a","n",
    "t"," ","l","a"," ","s","a","l","l","e",".">>

\* the pages of a PDF of n content pages behind the cover; second: what
\* stands on its second page
PdfPages(version_number, n, second) ==
    <<Cover>>
    \o [i \in 1..n |->
            IF i = 1 /\ second = "toc" THEN TocPage
            ELSE IF i = 1 /\ second = "fr" THEN FrenchPage
            ELSE PageText(version_number, i + 1)]

\* the input PDFs: a file that cannot be opened, documents of up to
\* MaxNodes content pages in English, with or without a page of contents,
\* and the same in French
Pdfs ==
    {[pdf_path |-> PdfName(sop_meta), opens |-> opens,
      doc |-> PdfPages(sop_meta["version_number"], n, second),
      french |-> second = "fr", sop_meta |-> sop_meta] :
        sop_meta \in SopMetas, opens \in BOOLEAN, n \in 0..MaxNodes,
        second \in {"plain", "toc", "fr"}}

\* what load_pdf gives for the input PDFs
PdfLoads == {LoadPdf(p.pdf_path, p.opens, p.doc) : p \in Pdfs}

\* the batches _process_english_pages produces for the pages of the input
\* PDFs in English that open and hold two content pages or more
PdfBatches ==
    {ProcessPages(p.doc, p.pdf_path, p.sop_meta, LANGUAGE_PHRASES["en"]) :
        p \in {x \in Pdfs : x.opens /\ Len(x.doc) >= 3 /\ ~x.french}}

\* batches that carry a document number
KeyedBatches ==
    {b \in PdfBatches : b # <<>> /\ b[1]["document_number"] = D1}

SOP_X_Rev06 == <<"S","O","P","_","X","_","R","e","v","0","6",".","p","d","f">>

SOP_X_Rev07 == <<"S","O","P","_","X","_","R","e","v","0","7",".","p","d","f">>

FileNames == {SOP_X_Rev06, SOP_X_Rev07}

\* a page of text of a file that goes through process_file
FilePage ==
    <<"O","p","e","r","a","t","o","r","s"," ","w","a","s","h"," ","a","n",
    "d"," ","d","r","y"," ","t","h","e","i","r"," ","h","a","n","d","s"," ",
    "b","e","f","o","r","e"," ","t","h","e","y"," ","e","n","t","e","r"," ",
    "t","h","e"," ","c","l","e","a","n"," ","r","o","o","m",".">>

\* a page that holds a page number and nothing else
FooterPage == <<"P","a","g","e"," ","2"," ","o","f"," ","3">>

\* the pages the loader reads from a file of n content pages behind its
\* first page; thin: the first content page is a FooterPage
FilePages(n, thin) ==
    <<Cover>>
    \o [i \in 1..n |-> IF thin /\ i = 1 THEN FooterPage ELSE FilePage]

\* a file without pages, and files of up to MaxNodes content pages
FileLayouts ==
    {<<>>} \cup {FilePages(n, thin) : n \in 0..MaxNodes, thin \in BOOLEAN}

\* the batches process_file produces for the input files
FileBatches ==
    {ProcessFile(f, pages, fails) :
        f \in FileNames, pages \in FileLayouts, fails \in BOOLEAN}

Queries == 0..MaxStore

(***************************************************************************)
(* The admin page (src/app/pages/admin_dashboard.py)                       *)
(***************************************************************************)
\* limit=100 of the scroll that counts the updated points
COUNT_LIMIT == 100

\* Filter(must=[file_name == file_name])
FileMatch(p, file_name) == HasKey(p, "file_name") /\ p["file_name"] = file_name

\* client.set_payload(payload={"status": status_str}, points=scroll_filter)
SetFileStatus(s, file_name, new_status) ==
    [i \in 1..Len(s) |->
        IF FileMatch(s[i], file_name)
        THEN SetKey(s[i], "status",
                    IF new_status THEN "Active" ELSE "Inactive")
        ELSE s[i]]

\* client.delete(points_selector=FilterSelector(filter=delete_filter))
DeleteFile(s, file_name) ==
    SelectSeq(s, LAMBDA p : ~FileMatch(p, file_name))

\* len(points) of update_sop_status
CountFile(s, file_name) ==
    LET n == Cardinality({i \in 1..Len(s) : FileMatch(s[i], file_name)})
    IN  IF n < COUNT_LIMIT THEN n ELSE COUNT_LIMIT

\* the files the page lists: those that have points in the collection
StoredFiles(s) ==
    {s[i]["file_name"] : i \in {x \in 1..Len(s) : HasKey(s[x], "file_name")}}

\* the local variables of an admin call on file_name; count is what
\* update_sop_status returns, outcome "True" or "False" what
\* delete_sop_permanently returns
AdminCall(op, file_name, outcome) ==
    [NoJob EXCEPT !.op = op, !.outcome = outcome]
    @@ [file_name |-> file_name, count |-> 0]

(***************************************************************************)
(* The system: client 1 loads and indexes documents, client 2 is the app   *)
(* that asks questions and uses the admin page; each request is a step of  *)
(* its own, so the requests of the two fall between one another            *)
(***************************************************************************)
Init ==
    /\ store = <<>>
    /\ last = NoCall
    /\ pc = [w \in Workers |-> "idle"]
    /\ job = [w \in Workers |-> NoJob]
    /\ collection = Created

\* a PDF goes through PDFLoader and IndexingPipeline.run is called on the
\* nodes, up to the first request of insert_nodes: the nodes are what
\* load_pdf gave, or what _process_english_pages gave for the pages; an
\* exception of load_pdf leaves the call before anything is indexed
IndexPdf(w) ==
    /\ pc[w] = "idle"
    /\ \E load \in PdfLoads \cup {[outcome |-> "list", nodes |-> nodes] :
                                    nodes \in PdfBatches} :
        /\ Room(load.nodes)
        /\ \E r \in {IF load.outcome # "list"
                     THEN [job |-> [NoJob EXCEPT !.op = "load",
                                                 !.outcome = "raised"],
                           pc |-> "returned"]
                     ELSE Run(NoJob, load.nodes)} :
            /\ job' = [job EXCEPT ![w] = r.job]
            /\ pc' = [pc EXCEPT ![w] = r.pc]
    /\ UNCHANGED <<store, last, collection>>

\* a file goes through process_file and IndexingPipeline.run is called on
\* its nodes, up to the first request of insert_nodes
IngestFile(w) ==
    /\ pc[w] = "idle"
    /\ \E nodes \in FileBatches :
        /\ Room(nodes)
        /\ \E r \in {Run(NoJob, nodes)} :
            /\ job' = [job EXCEPT ![w] = r.job]
            /\ pc' = [pc EXCEPT ![w] = r.pc]
    /\ UNCHANGED <<store, last, collection>>

\* FASAEngine.query: the retrieval is one request
Query(w) ==
    /\ pc[w] = "idle"
    /\ \E q \in Queries, ok \in BOOLEAN :
        job' = [job EXCEPT ![w] = QueryResult(store, q, ok)]
    /\ pc' = [pc EXCEPT ![w] = "returned"]
    /\ UNCHANGED <<store, last, collection>>

\* update_sop_status(file_name, new_status) up to its set_payload request,
\* which nothing catches when it raises
UpdateSopStatus(w) ==
    /\ pc[w] = "idle"
    /\ \E file_name \in StoredFiles(store), new_status \in BOOLEAN,
          ok \in BOOLEAN :
        /\ store' = IF ok THEN SetFileStatus(store, file_name, new_status)
                    ELSE store
        /\ job' = [job EXCEPT ![w] =
                    AdminCall("update", file_name,
                              IF ok THEN "pending" ELSE "raised")]
        /\ pc' = [pc EXCEPT ![w] = IF ok THEN "count" ELSE "returned"]
    /\ UNCHANGED <<last, collection>>

\* the scroll request of update_sop_status and its return
CountUpdated(w) ==
    /\ pc[w] = "count"
    /\ \E ok \in BOOLEAN :
        job' = [job EXCEPT
                  ![w].count = IF ok THEN CountFile(store, job[w].file_name)
                               ELSE @,
                  ![w].outcome = IF ok THEN "count" ELSE "raised"]
    /\ pc' = [pc EXCEPT ![w] = "returned"]
    /\ UNCHANGED <<store, last, collection>>

\* delete_sop_permanently(file_name): True, or False when the request raises
DeleteSopPermanently(w) ==
    /\ pc[w] = "idle"
    /\ \E file_name \in StoredFiles(store), ok \in BOOLEAN :
        /\ store' = IF ok THEN DeleteFile(store, file_name) ELSE store
        /\ job' = [job EXCEPT ![w] =
                    AdminCall("delete", file_name,
                              IF ok THEN "True" ELSE "False")]
    /\ pc' = [pc EXCEPT ![w] = "returned"]
    /\ UNCHANGED <<last, collection>>

\* IngestionPipeline and IndexingPipeline at work
NextSerial ==
    \/ IndexPdf(1) \/ IngestFile(1)
    \/ Scroll(1, Outcomes) \/ Flip(1, Outcomes) \/ Upload(1, Outcomes)
    \/ Return(1)

\* the app at work
NextApp ==
    \/ Query(2)
    \/ UpdateSopStatus(2) \/ CountUpdated(2) \/ DeleteSopPermanently(2)
    \/ Return(2)

Next == NextSerial \/ NextApp

Spec == Init /\ [][Next]_vars

(***************************************************************************)
(* Serialized ingestion: one client, one insert_nodes call after the other *)
(***************************************************************************)
SpecSerial == Init /\ [][NextSerial]_vars

(***************************************************************************)
(* Two clients load and index PDFs at the same time: nothing orders the    *)
(* requests of the one against those of the other                          *)
(***************************************************************************)
NextRace ==
    \E w \in Workers :
        \/ IndexPdf(w)
        \/ Scroll(w, Outcomes) \/ Flip(w, Outcomes) \/ Upload(w, Outcomes)
        \/ Return(w)

SpecRace == Init /\ [][NextRace]_vars

(***************************************************************************)
(* FASAEngine.search (src/src/rag/retriever.py)                            *)
(***************************************************************************)
\* string.punctuation (without the grave accent, which no TLA+ string can
\* hold and no input below uses)
PUNCTUATION ==
    {"!", "\"", "#", "$", "%", "&", "'", "(", ")", "*", "+", ",", "-", ".",
     "/", ":", ";", "<", "=", ">", "?", "@", "[", "\\", "]", "^", "_",
     "{", "|", "}", "~"}

\* stop_words after stop_words.update(ADDITIONAL_STOP_WORDS)
STOP_WORDS ==
    { <<"a">>, <<"a","b","o","u","t">>, <<"a","b","o","v","e">>,
      <<"a","c","c","o","r","d","a","n","c","e">>,
      <<"a","c","c","o","r","d","i","n","g">>, <<"a","f","t","e","r">>,
      <<"a","g","a","i","n">>, <<"a","g","a","i","n","s","t">>,
      <<"a","l","l">>, <<"a","l","r","e","a","d","y">>,
      <<"a","l","t","h","o","u","g","h">>, <<"a","l","w","a","y","s">>,
      <<"a","m">>, <<"a","m","i","d">>, <<"a","m","i","d","s","t">>,
      <<"a","m","o","n","g">>, <<"a","m","o","n","g","s","t">>,
      <<"a","m","o","u","n","t">>, <<"a","n">>, <<"a","n","d">>,
      <<"a","n","n","u","a","l","l","y">>, <<"a","n","o","t","h","e","r">>,
      <<"a","n","y">>, <<"a","n","y","b","o","d","y">>,
      <<"a","n","y","o","n","e">>, <<"a","n","y","t","h","i","n","g">>,
      <<"a","n","y","w","h","e","r","e">>, <<"a","r","e">>,
      <<"a","r","o","u","n","d">>, <<"a","s">>, <<"a","t">>, <<"b","a","d">>,
      <<"b","a","s","e">>, <<"b","a","s","e","d">>, <<"b","a","s","e","s">>,
      <<"b","a","s","i","n","g">>, <<"b","e">>, <<"b","e","c","a","m","e">>,
      <<"b","e","c","a","u","s","e">>, <<"b","e","c","o","m","e">>,
      <<"b","e","c","o","m","e","s">>, <<"b","e","c","o","m","i","n","g">>,
      <<"b","e","e","n">>, <<"b","e","f","o","r","e">>,
      <<"b","e","i","n","g">>, <<"b","e","l","o","w">>,
      <<"b","e","s","i","d","e">>, <<"b","e","s","i","d","e","s">>,
      <<"b","e","t","w","e","e","n">>, <<"b","e","y","o","n","d">>,
      <<"b","i","g">>, <<"b","o","t","h">>, <<"b","u","t">>, <<"b","y">>,
      <<"c","a","m","e">>, <<"c","a","n">>, <<"c","e","r","t","a","i","n">>,
      <<"c","o","m","e">>, <<"c","o","m","e","s">>,
      <<"c","o","m","i","n","g">>,
      <<"c","o","n","c","e","r","n","i","n","g">>,
      <<"c","o","n","s","i","s","t">>,
      <<"c","o","n","s","i","s","t","e","d">>,
      <<"c","o","n","s","i","s","t","i","n","g">>,
      <<"c","o","n","s","i","s","t","s">>, <<"c","o","n","t","a","i","n">>,
      <<"c","o","n","t","a","i","n","e","d">>,
      <<"c","o","n","t","a","i","n","i","n","g">>,
      <<"c","o","n","t","a","i","n","s">>, <<"c","o","u","l","d">>,
      <<"c","u","r","r","e","n","t","l","y">>, <<"d">>,
      <<"d","a","i","l","y">>, <<"d","e","s","c","r","i","b","e">>,
      <<"d","e","s","c","r","i","b","e","d">>,
      <<"d","e","s","c","r","i","b","i","n","g">>,
      <<"d","e","s","p","i","t","e">>, <<"d","i","d">>, <<"d","o">>,
      <<"d","o","e","s">>, <<"d","o","i","n","g">>, <<"d","o","n">>,
      <<"d","o","w","n">>, <<"d","u","r","i","n","g">>, <<"e","a","c","h">>,
      <<"e","a","r","l","y">>, <<"e","g">>, <<"e","i","t","h","e","r">>,
      <<"e","n","s","u","r","e">>, <<"e","n","s","u","r","e","d">>,
      <<"e","n","s","u","r","i","n","g">>, <<"e","n","t","i","r","e">>,
      <<"e","t","c">>, <<"e","v","e","n","t","u","a","l","l","y">>,
      <<"e","v","e","r","y","b","o","d","y">>,
      <<"e","v","e","r","y","o","n","e">>,
      <<"e","v","e","r","y","t","h","i","n","g">>,
      <<"e","v","e","r","y","w","h","e","r","e">>, <<"e","x">>,
      <<"e","x","a","m","p","l","e">>, <<"e","x","c","e","p","t">>,
      <<"f","a","r">>, <<"f","e","w">>, <<"f","i","n","d">>,
      <<"f","i","n","d","i","n","g">>, <<"f","i","n","d","s">>,
      <<"f","o","l","l","o","w">>, <<"f","o","l","l","o","w","e","d">>,
      <<"f","o","l","l","o","w","i","n","g">>, <<"f","o","r">>,
      <<"f","o","u","n","d">>, <<"f","r","o","m">>,
      <<"f","u","r","t","h","e","r">>,
      <<"f","u","r","t","h","e","r","m","o","r","e">>, <<"g","e","t">>,
      <<"g","e","t","s">>, <<"g","e","t","t","i","n","g">>, <<"g","o">>,
      <<"g","o","e","s">>, <<"g","o","i","n","g">>, <<"g","o","n","e">>,
      <<"g","o","o","d">>, <<"g","o","t">>, <<"g","o","t","t","e","n">>,
      <<"h","a","d">>, <<"h","a","l","f">>, <<"h","a","s">>,
      <<"h","a","v","e">>, <<"h","e">>, <<"h","e","n","c","e">>,
      <<"h","e","r">>, <<"h","e","r","e">>, <<"h","e","r","s">>,
      <<"h","e","r","s","e","l","f">>, <<"h","i","g","h">>, <<"h","i","m">>,
      <<"h","i","m","s","e","l","f">>, <<"h","i","s">>, <<"h","o","w">>,
      <<"h","o","w","e","v","e","r">>, <<"i">>, <<"i","e">>, <<"i","f">>,
      <<"i","n">>, <<"i","n","c","l","u","d","e">>,
      <<"i","n","c","l","u","d","e","d">>,
      <<"i","n","c","l","u","d","e","s">>,
      <<"i","n","c","l","u","d","i","n","g">>, <<"i","n","s","i","d","e">>,
      <<"i","n","s","t","e","a","d">>, <<"i","n","t","o">>, <<"i","s">>,
      <<"i","t">>, <<"i","t","s">>, <<"i","t","s","e","l","f">>,
      <<"j","u","s","t">>, <<"k","e","e","p">>,
      <<"k","e","e","p","i","n","g">>, <<"k","e","e","p","s">>,
      <<"k","e","p","t">>, <<"k","i","n","d","l","y">>, <<"k","n","e","w">>,
      <<"k","n","o","w">>, <<"k","n","o","w","i","n","g">>,
      <<"k","n","o","w","n">>, <<"k","n","o","w","s">>,
      <<"l","a","t","e","r">>, <<"l","e","t">>, <<"l","e","t","s">>,
      <<"l","e","t","t","i","n","g">>, <<"l","i","s","t","e","d">>,
      <<"l","i","s","t","i","n","g">>, <<"l","i","s","t","s">>, <<"l","l">>,
      <<"l","o","o","k">>, <<"l","o","o","k","e","d">>,
      <<"l","o","o","k","i","n","g">>, <<"l","o","o","k","s">>,
      <<"l","o","w">>, <<"m">>, <<"m","a","d","e">>, <<"m","a","i","n">>,
      <<"m","a","j","o","r">>, <<"m","a","k","e">>, <<"m","a","k","e","s">>,
      <<"m","a","k","i","n","g">>, <<"m","a","y">>, <<"m","e">>,
      <<"m","e","a","n","w","h","i","l","e">>, <<"m","i","g","h","t">>,
      <<"m","i","n","o","r">>, <<"m","o","n","t","h","l","y">>,
      <<"m","o","r","e">>, <<"m","o","r","e","o","v","e","r">>,
      <<"m","o","s","t">>, <<"m","u","s","t">>, <<"m","y">>,
      <<"m","y","s","e","l","f">>, <<"n","e","a","r">>, <<"n","e","e","d">>,
      <<"n","e","e","d","e","d">>, <<"n","e","e","d","i","n","g">>,
      <<"n","e","e","d","s">>, <<"n","e","i","t","h","e","r">>,
      <<"n","e","v","e","r">>,
      <<"n","e","v","e","r","t","h","e","l","e","s","s">>, <<"n","o">>,
      <<"n","o","b","o","d","y">>, <<"n","o","n","e">>,
      <<"n","o","n","e","t","h","e","l","e","s","s">>, <<"n","o","r">>,
      <<"n","o","t">>, <<"n","o","t","h","i","n","g">>, <<"n","o","w">>,
      <<"n","o","w","h","e","r","e">>, <<"o","f">>, <<"o","f","f">>,
      <<"o","f","t","e","n">>, <<"o","n">>, <<"o","n","c","e">>,
      <<"o","n","l","y">>, <<"o","r">>, <<"o","t","h","e","r">>,
      <<"o","t","h","e","r","w","i","s","e">>, <<"o","u","g","h","t">>,
      <<"o","u","r">>, <<"o","u","r","s">>,
      <<"o","u","r","s","e","l","v","e","s">>, <<"o","u","t">>,
      <<"o","u","t","s","i","d","e">>, <<"o","v","e","r">>, <<"o","w","n">>,
      <<"p","e","r">>, <<"p","l","e","a","s","e">>,
      <<"p","l","e","n","t","y">>, <<"p","u","t">>, <<"p","u","t","s">>,
      <<"p","u","t","t","i","n","g">>, <<"r","a","r","e","l","y">>,
      <<"r","e">>, <<"r","e","c","e","n","t","l","y">>,
      <<"r","e","f","e","r">>, <<"r","e","f","e","r","e","n","c","e">>,
      <<"r","e","f","e","r","r","e","d">>,
      <<"r","e","f","e","r","r","i","n","g">>,
      <<"r","e","g","a","r","d","i","n","g">>, <<"r","e","l","a","t","e">>,
      <<"r","e","l","a","t","e","d">>, <<"r","e","l","a","t","i","n","g">>,
      <<"s">>, <<"s","a","i","d">>, <<"s","a","m","e">>, <<"s","a","y">>,
      <<"s","a","y","i","n","g">>, <<"s","a","y","s">>, <<"s","e","e","m">>,
      <<"s","e","e","m","e","d">>, <<"s","e","e","m","i","n","g">>,
      <<"s","e","e","m","s">>, <<"s","e","v","e","r","a","l">>,
      <<"s","h","a","l","l">>, <<"s","h","e">>, <<"s","h","o","u","l","d">>,
      <<"s","m","a","l","l">>, <<"s","o">>, <<"s","o","m","e">>,
      <<"s","o","m","e","b","o","d","y">>, <<"s","o","m","e","o","n","e">>,
      <<"s","o","m","e","t","h","i","n","g">>,
      <<"s","o","m","e","t","i","m","e","s">>,
      <<"s","o","m","e","w","h","e","r","e">>, <<"s","o","o","n">>,
      <<"s","t","a","t","e","d">>, <<"s","t","a","t","e","s">>,
      <<"s","t","a","t","i","n","g">>, <<"s","u","c","h">>, <<"t">>,
      <<"t","a","k","e">>, <<"t","a","k","e","n">>, <<"t","a","k","e","s">>,
      <<"t","a","k","i","n","g">>, <<"t","h","a","n">>, <<"t","h","a","t">>,
      <<"t","h","e">>, <<"t","h","e","i","r">>, <<"t","h","e","i","r","s">>,
      <<"t","h","e","m">>, <<"t","h","e","m","s","e","l","v","e","s">>,
      <<"t","h","e","n">>, <<"t","h","e","r","e">>,
      <<"t","h","e","r","e","f","o","r","e">>, <<"t","h","e","s","e">>,
      <<"t","h","e","y">>, <<"t","h","i","n","k">>,
      <<"t","h","i","n","k","i","n","g">>, <<"t","h","i","n","k","s">>,
      <<"t","h","i","s">>, <<"t","h","o","s","e">>,
      <<"t","h","o","u","g","h">>, <<"t","h","o","u","g","h","t">>,
      <<"t","h","r","o","u","g","h">>,
      <<"t","h","r","o","u","g","h","o","u","t">>, <<"t","h","u","s">>,
      <<"t","o">>, <<"t","o","d","a","y">>,
      <<"t","o","m","o","r","r","o","w">>, <<"t","o","o">>,
      <<"t","o","o","k">>, <<"t","o","w","a","r","d">>,
      <<"t","o","w","a","r","d","s">>, <<"t","r","i","e","d">>,
      <<"t","r","i","e","s">>, <<"t","r","y">>, <<"t","r","y","i","n","g">>,
      <<"u","n","d","e","r">>, <<"u","n","l","e","s","s">>,
      <<"u","n","t","i","l">>, <<"u","p">>, <<"u","p","o","n">>, <<"u","s">>,
      <<"u","s","e">>, <<"u","s","e","d">>, <<"u","s","e","s">>,
      <<"u","s","i","n","g">>, <<"u","s","u","a","l","l","y">>,
      <<"v","a","r","i","o","u","s">>, <<"v","e">>,
      <<"v","e","r","s","u","s">>, <<"v","e","r","y">>, <<"v","i","a">>,
      <<"v","i","z">>, <<"w","a","n","t">>, <<"w","a","n","t","e","d">>,
      <<"w","a","n","t","i","n","g">>, <<"w","a","n","t","s">>,
      <<"w","a","s">>, <<"w","e">>, <<"w","e","e","k","l","y">>,
      <<"w","e","n","t">>, <<"w","e","r","e">>, <<"w","h","a","t">>,
      <<"w","h","e","n">>, <<"w","h","e","n","e","v","e","r">>,
      <<"w","h","e","r","e">>, <<"w","h","e","r","e","a","s">>,
      <<"w","h","e","r","e","b","y">>, <<"w","h","e","r","e","i","n">>,
      <<"w","h","e","r","e","u","p","o","n">>,
      <<"w","h","e","r","e","v","e","r">>, <<"w","h","i","l","e">>,
      <<"w","h","o","l","e">>, <<"w","h","y">>, <<"w","i","l","l">>,
      <<"w","i","t","h">>, <<"w","i","t","h","i","n">>,
      <<"w","i","t","h","o","u","t">>, <<"w","o","u","l","d">>,
      <<"y","e","a","r","l","y">>, <<"y","e","s","t","e","r","d","a","y">>,
      <<"y","o","u">>, <<"y","o","u","r">>, <<"y","o","u","r","s">>,
      <<"y","o","u","r","s","e","l","f">>,
      <<"y","o","u","r","s","e","l","v","e","s">> }

\* similarity_top_k of the broad retriever
SPARSE_TOP_K == 100

\* characters of context a snippet keeps on each side of a match
SNIPPET_MARGIN == 60

\* a group stops collecting snippets at this number
MAX_SNIPPETS == 3

\* the bullet character U+2022 that starts a snippet line
BULLET == "*"

\* \w of the regular expressions: the letters and digits of Unicode and
\* the underscore
WordChars ==
    Letters \cup Digits \cup {"_"} \cup
    {"ª", "²", "³", "µ", "¹", "º", "¼", "½", "¾", "À", "Á", "Â", "Ã", "Ä",
     "Å", "Æ", "Ç", "È", "É", "Ê", "Ë", "Ì", "Í", "Î", "Ï", "Ð", "Ñ", "Ò",
     "Ó", "Ô", "Õ", "Ö", "Ø", "Ù", "Ú", "Û", "Ü", "Ý", "Þ", "ß", "à", "á",
     "â", "ã", "ä", "å", "æ", "ç", "è", "é", "ê", "ë", "ì", "í", "î", "ï",
     "ð", "ñ", "ò", "ó", "ô", "õ", "ö", "ø", "ù", "ú", "û", "ü", "ý", "þ",
     "ÿ"}

\* \b at the gap behind position p of text: one of the two neighbours is a
\* word character and the other is none (or there is none)
Boundary(text, p) ==
    LET word(i) == i >= 1 /\ i <= Len(text) /\ text[i] \in WordChars
    IN  word(p) # word(p + 1)

\* query_term.lower() with every punctuation character replaced by a space
CleanedQuery(query_term) ==
    [i \in 1..Len(query_term) |->
        LET c == LowerChar(query_term[i])
        IN  IF c \in PUNCTUATION THEN " " ELSE c]

\* filtered_terms: the tokens of the cleaned query that are no stop words
\* (re.escape leaves them as they are: a token holds no punctuation)
FilteredTerms(query_term) ==
    SelectSeq(Split(CleanedQuery(query_term)), LAMBDA t : t \notin STOP_WORDS)

\* \b(t)\b matches at position p of text, ignoring case
TermAt(text, p, t) ==
    /\ p + Len(t) - 1 <= Len(text)
    /\ \A k \in 1..Len(t) : LowerChar(text[p + k - 1]) = LowerChar(t[k])
    /\ Boundary(text, p - 1)
    /\ Boundary(text, p + Len(t) - 1)

\* last position of the match of highlight_pattern that starts at p (the
\* first alternative that matches), 0 if none starts there
MatchEnd(text, p, terms) ==
    LET hits == {k \in 1..Len(terms) : TermAt(text, p, terms[k])}
    IN  IF hits = {} THEN 0
        ELSE LET k == CHOOSE x \in hits : \A y \in hits : x <= y
             IN  p + Len(terms[k]) - 1

\* highlight_pattern.finditer(text) from position p on: the matches as
\* Python's m.start() and m.end()
RECURSIVE FindIter(_, _, _)
FindIter(text, p, terms) ==
    IF p > Len(text) THEN <<>>
    ELSE LET e == MatchEnd(text, p, terms)
         IN  IF e = 0 THEN FindIter(text, p + 1, terms)
             ELSE <<[start |-> p - 1, end |-> e]>>
                  \o FindIter(text, e + 1, terms)

\* a pattern that needs every term to occur in the text
PatternFoundAll(text, terms) ==
    \A k \in 1..Len(terms) : FindIter(text, 1, <<terms[k]>>) # <<>>

\* highlight_pattern.search(text) finds a match
PatternFound(text, terms) == FindIter(text, 1, terms) # <<>>

\* sub in text
Contains(text, sub) ==
    \E p \in 1..(Len(text) - Len(sub) + 1) :
        SubSeq(text, p, p + Len(sub) - 1) = sub

\* clean_text: the text without its first line when it holds "Source:"
CleanText(text_to_scan) ==
    LET nl == {p \in 1..Len(text_to_scan) : text_to_scan[p] = "\n"}
    IN  IF Contains(text_to_scan, <<"S","o","u","r","c","e",":">>) /\ nl # {}
        THEN LET p == CHOOSE x \in nl : \A y \in nl : x <= y
             IN  Slice(text_to_scan, p + 1, Len(text_to_scan))
        ELSE text_to_scan

\* one snippet line for match m of clean_text
SnippetLine(clean_text, page_label, m) ==
    LET start == IF m.start - SNIPPET_MARGIN > 0
                 THEN m.start - SNIPPET_MARGIN ELSE 0
        end == IF m.end + SNIPPET_MARGIN < Len(clean_text)
               THEN m.end + SNIPPET_MARGIN ELSE Len(clean_text)
        snippet == Replace(Slice(clean_text, start + 1, end),
                           <<"\n">>, <<" ">>)
    IN  <<BULLET, " ", "(", "P", "g", " ">> \o page_label
        \o <<")", " ", ".", ".", ".">> \o snippet \o <<".", ".", ".">>

\* the snippets list after the finditer loop over matches ms
RECURSIVE AddSnippets(_, _, _, _)
AddSnippets(snippets, clean_text, page_label, ms) ==
    IF ms = <<>> THEN snippets
    ELSE LET more == Append(snippets,
                            SnippetLine(clean_text, page_label, Head(ms)))
         IN  IF Len(more) >= MAX_SNIPPETS THEN more
             ELSE AddSnippets(more, clean_text, page_label, Tail(ms))

\* meta.get("original_text", node.text) of a stored point: the points of
\* the collections searched here come from PDFLoader and all carry
\* original_text
OriginalText(p) == p["original_text"]

\* scores the sparse retriever gives, node_w_score.score: floats of more
\* than three places, two of them equal after rounding, and one half way
\* between two numbers of three places
SparseScores ==
    {ParseFloat(<<"0",".","1","2","3","4","9">>).val,
     ParseFloat(<<"0",".","1","2","3","4">>).val,
     ParseFloat(<<"0",".","1","8","7","5">>).val}

\* the scores of a list of n candidates, in the order of the list: search
\* takes them as they come
CandidateScores(n) == [1..n -> SparseScores]

\* the ranked lists broad_retriever.retrieve may return: distinct points that
\* pass the status filter, at most similarity_top_k of them (and at most
\* MaxCands here)
Candidates(s) ==
    LET act == {i \in 1..Len(s) : ActiveFilter(s[i])}
        top_k == IF MaxCands < SPARSE_TOP_K THEN MaxCands ELSE SPARSE_TOP_K
        most == IF Cardinality(act) < top_k THEN Cardinality(act) ELSE top_k
    IN  UNION {{c \in [1..n -> act] :
                    \A a \in 1..n : \A b \in 1..n : c[a] = c[b] => a = b} :
               n \in 0..most}

\* the loop over candidate_nodes from candidate k on, scores holding the
\* score of each candidate; groups is sop_grouping in insertion order,
\* points the stored points a group was built from
RECURSIVE Grouping(_, _, _, _, _, _)
Grouping(s, cands, scores, k, terms, groups) ==
    IF k > Len(cands) THEN groups
    ELSE
    LET meta == s[cands[k]]
        text_to_scan == OriginalText(meta)
        sop_title == Get(meta, "sop_title", <<"U","n","k","n","o","w","n"," ","S","O","P">>)
        file_name == Get(meta, "file_name", <<"U","n","k","n","o","w","n"," ","F","i","l","e">>)
        page_label == Get(meta, "page_label", <<"?">>)
        known == {g \in 1..Len(groups) : groups[g].title = sop_title}
        opened == IF known = {}
                  THEN Append(groups,
                              [title |-> sop_title, file_name |-> file_name,
                               highest_score |-> scores[k],
                               match_count |-> 0, snippets |-> <<>>,
                               points |-> {}])
                  ELSE groups
        g == CHOOSE x \in 1..Len(opened) : opened[x].title = sop_title
        clean_text == CleanText(text_to_scan)
        snippets == IF Len(opened[g].snippets) < MAX_SNIPPETS
                    THEN AddSnippets(opened[g].snippets, clean_text,
                                     page_label,
                                     FindIter(clean_text, 1, terms))
                    ELSE opened[g].snippets
        updated == [opened EXCEPT
                        ![g].match_count = @ + 1,
                        ![g].snippets = snippets,
                        ![g].points = @ \cup {cands[k]}]
    IN  IF ~PatternFound(text_to_scan, terms)
        THEN Grouping(s, cands, scores, k + 1, terms, groups)
        ELSE Grouping(s, cands, scores, k + 1, terms, updated)

\* "\n".join(lines)
\* one entry of results, Relevance being round(highest_score, 3)
FormatGroup(data) ==
    [title |-> data.title, file_name |-> data.file_name,
     relevance |-> Round(data.highest_score), matches |-> data.match_count,
     snippets |-> JoinLines(data.snippets), points |-> data.points]

\* results.sort(key=Relevance, reverse=True): stable, descending
RECURSIVE SortByRelevance(_)
SortByRelevance(results) ==
    IF results = <<>> THEN <<>>
    ELSE LET k == CHOOSE x \in 1..Len(results) :
                    /\ \A y \in 1..Len(results) :
                           LessEqual(results[y].relevance,
                                     results[x].relevance)
                    /\ \A y \in 1..(x - 1) :
                           Less(results[y].relevance, results[x].relevance)
         IN  <<results[k]>>
             \o SortByRelevance(Slice(results, 1, k - 1)
                                \o Slice(results, k + 1, Len(results)))

\* what a search call leaves for its caller: the list it returned, or
\* outcome "raised" for an exception that left the call
SearchReturn(s, query_term, outcome, results) ==
    [op |-> "search", nodes |-> <<>>, outcome |-> outcome,
     queried |-> FALSE, status |-> "unset", base |-> Len(s), added |-> 0,
     q |-> 0, sources |-> <<>>, term |-> query_term, results |-> results]

\* a search whose retrieval failure leaves the call as an exception
SearchFailurePropagates(s, query_term) ==
    SearchReturn(s, query_term, "raised", <<>>)

\* except Exception: return []
SearchFailure(s, query_term) == SearchReturn(s, query_term, "error", <<>>)

\* search(query_term); cands is what the retriever returns and scores the
\* scores it gives, ok = FALSE when the retrieval raises
SearchResult(s, query_term, cands, scores, ok) ==
    LET terms == FilteredTerms(query_term)
    IN  IF Strip(query_term) = <<>> \/ terms = <<>>
        THEN SearchReturn(s, query_term, "empty", <<>>)
        ELSE IF ~ok THEN SearchFailure(s, query_term)
        ELSE LET groups == Grouping(s, cands, scores, 1, terms, <<>>)
                 results == [g \in 1..Len(groups) |-> FormatGroup(groups[g])]
             IN  SearchReturn(s, query_term, "results",
                              SortByRelevance(results))

\* the texts typed into the search box
SearchTerms ==
    { <<" ">>,
      <<"t","h","e">>,
      <<"G","l","o","v","e","s">>,
      <<"g","l","o","v","e">>,
      <<"r","o","o","m",","," ","t","h","e"," ","m","a","s","k","s">>,
      <<"p","a","g","e">> }

(***************************************************************************)
(* Retrieval over an indexed collection: query and search calls against    *)
(* the stores that one or two successful indexing runs of revisions of the *)
(* keyed document leave.                                                   *)
(***************************************************************************)
IndexedOnce == UNION {Indexed(<<>>, nodes) : nodes \in KeyedBatches}

IndexedStores ==
    IndexedOnce
    \cup UNION {Indexed(s, nodes) :
                    s \in IndexedOnce, nodes \in KeyedBatches}

InitSearch ==
    /\ store \in {s \in IndexedStores : Len(s) <= MaxStore}
    /\ last = NoCall
    /\ pc = [w \in Workers |-> "idle"]
    /\ job = [w \in Workers |-> NoJob]
    /\ collection = Created

\* FASAEngine.search, called by the client between two of its query calls;
\* a run holds one search, which changes nothing that a later one reads
Search ==
    /\ pc[1] = "idle"
    /\ last = NoCall
    /\ \E query_term \in SearchTerms, ok \in BOOLEAN :
        \E cands \in IF ok THEN Candidates(store) ELSE {<<>>} :
            \E scores \in CandidateScores(Len(cands)) :
                last' = SearchResult(store, query_term, cands, scores, ok)
    /\ UNCHANGED <<store, pc, job, collection>>

NextSearch == Query(1) \/ Return(1) \/ Search

SpecSearch == InitSearch /\ [][NextSearch]_vars

(***************************************************************************)
(* Keyword discovery over a collection of two documents: worker 1 runs one *)
(* search call in two steps, the retrieval of the candidates, kept in      *)
(* job[1], and the loop that filters, groups and formats them.             *)
(***************************************************************************)
\* the batches _process_english_pages gives for the PDFs of a second
\* document, D2 / T2
OtherBatches ==
    {ProcessPages(PdfPages(v, n, second),
                  <<"T","2","_">> \o v \o <<".","p","d","f">>,
                  [document_title |-> <<"T","2">>,
                   document_number |-> <<"D","2">>,
                   version_number |-> v, language |-> "en"],
                  LANGUAGE_PHRASES["en"]) :
        v \in {<<"1">>, <<"2">>}, n \in 2..MaxNodes,
        second \in {"plain", "toc"}}

\* the stores after the second document was indexed behind the first
LibraryStores ==
    UNION {Indexed(s, nodes) :
            s \in IndexedStores \cup {<<>>}, nodes \in OtherBatches}

InitDiscover ==
    /\ store \in {s \in LibraryStores : Len(s) <= MaxStore}
    /\ last = NoCall
    /\ pc = [w \in Workers |-> IF w = 1 THEN "search" ELSE "idle"]
    /\ job = [w \in Workers |-> NoJob]
    /\ collection = Created

\* search(query_term) up to candidate_nodes: broad_retriever.retrieve
\* returns a ranked list or raises
SparseRetrieve ==
    /\ pc[1] = "search"
    /\ \E query_term \in SearchTerms, ok \in BOOLEAN :
        \E cands \in IF ok THEN Candidates(store) ELSE {<<>>} :
            \E scores \in CandidateScores(Len(cands)) :
                job' = [job EXCEPT ![1] =
                            [term |-> query_term, ok |-> ok,
                             cands |-> cands, scores |-> scores]]
    /\ pc' = [pc EXCEPT ![1] = "group"]
    /\ UNCHANGED <<store, last, collection>>

\* the rest of search: filter, group, format, sort and return
GroupAndReturn ==
    /\ pc[1] = "group"
    /\ last' = SearchResult(store, job[1].term, job[1].cands, job[1].scores,
                            job[1].ok)
    /\ pc' = [pc EXCEPT ![1] = "done"]
    /\ UNCHANGED <<store, job, collection>>

NextDiscover == SparseRetrieve \/ GroupAndReturn

SpecDiscover == InitDiscover /\ [][NextDiscover]_vars

(***************************************************************************)
(* Bulk ingestion (src/scripts/bulk_ingest.py): every client runs the loop *)
(* of main over the files of the input directory; job[w] holds the loop's  *)
(* variables next to those of the insert_nodes call in flight.  The nodes  *)
(* of process_file carry no document number, so insert_nodes goes to the   *)
(* write without a scroll.                                                 *)
(***************************************************************************)
\* file_already_indexed(db_manager, filename); ok = FALSE when the scroll
\* raises
FileAlreadyIndexed(s, filename, ok) ==
    /\ ok
    /\ \E i \in 1..Len(s) : FileMatch(s[i], filename)

\* ingest_pipe.run(file_path): the nodes of process_file for the file
IngestPipeRun(file_path, pages, fails) == ProcessFile(file_path, pages, fails)

\* ingest_pipe.run for every file, layout and failure of the input
PipeRuns ==
    [f \in FileNames, pages \in FileLayouts, fails \in BOOLEAN |->
        IngestPipeRun(f, pages, fails)]

\* a loop that an exception of one file leaves: the position jumps behind
\* the last of the n files
AbortOnError(n, i, outcome) == IF outcome = "error" THEN n ELSE i + 1

\* the position of the loop after the file at position i + 1 was handled
\* with the given outcome: continue, fall through and the except clause all
\* lead to the next file
AfterFile(n, i, outcome) == i + 1

\* the loop variables as main sets them before the loop; seen lists the
\* files the loop has handled with what became of them
BulkStart(all_files) ==
    NoJob @@ [files |-> all_files, i |-> 0, success_count |-> 0,
              skipped_count |-> 0, failed_files |-> <<>>, seen |-> <<>>]

\* the loop variables after the pass for file filename ended with outcome
BulkApply(b, filename, outcome) ==
    [b EXCEPT
        !.op = "none", !.nodes = <<>>, !.status = "unset", !.flip = FALSE,
        !.queried = FALSE, !.outcome = "none", !.added = 0,
        !.i = AfterFile(Len(b.files), b.i, outcome),
        !.seen = Append(@, [file |-> filename, outcome |-> outcome]),
        !.success_count = IF outcome = "done" THEN @ + 1 ELSE @,
        !.skipped_count = IF outcome = "skipped" THEN @ + 1 ELSE @,
        !.failed_files = IF outcome \in {"empty", "error", "db fail"}
                         THEN Append(@, filename) ELSE @]

\* one pass of the loop body from the scroll of file_already_indexed, on
\* store s, up to the next request: nodes is what ingest_pipe.run gives
BulkChecked(s, b, nodes, check_ok) ==
    LET filename == b.files[b.i + 1]
    IN  IF FileAlreadyIndexed(s, filename, check_ok)
        THEN [job |-> BulkApply(b, filename, "skipped"), pc |-> "loop"]
        ELSE IF nodes = <<>>
        THEN [job |-> BulkApply(b, filename, "empty"), pc |-> "loop"]
        ELSE Run(b, nodes)

\* the rest of the pass once index_pipe.run has returned or raised
BulkReturned(b) ==
    BulkApply(b, b.files[b.i + 1],
              IF b.outcome = "raised" THEN "error"
              ELSE IF b.outcome = "index" THEN "done"
              ELSE "db fail")

\* the contents of the input directory, in the order iterdir gives them
AllFiles ==
    {<<SOP_X_Rev06>>, <<SOP_X_Rev07>>, <<SOP_X_Rev06, SOP_X_Rev07>>,
     <<SOP_X_Rev07, SOP_X_Rev06>>}

\* what ingest_pipe.run may give for file f
AnyBatches(f) ==
    {PipeRuns[f, pages, fails] : pages \in FileLayouts, fails \in BOOLEAN}

InitBulk ==
    /\ store = <<>>
    /\ last = NoCall
    /\ pc = [w \in Workers |-> "loop"]
    /\ \E all_files \in AllFiles :
        job = [w \in Workers |-> BulkStart(all_files)]
    /\ collection = Created

\* the file the loop of client w takes next
NextFile(w) == job[w].files[job[w].i + 1]

\* the body of the for loop of main for the next file, from the check of
\* file_already_indexed up to the first upload request; batches: what
\* ingest_pipe.run may give for that file
BulkCheck(w, batches, oks) ==
    /\ pc[w] = "loop"
    /\ job[w].i < Len(job[w].files)
    /\ \E check_ok \in oks :
        \E nodes \in batches :
            /\ \/ FileAlreadyIndexed(store, NextFile(w), check_ok)
               \/ Room(nodes)
            /\ \E r \in {BulkChecked(store, job[w], nodes, check_ok)} :
                /\ job' = [job EXCEPT ![w] = r.job]
                /\ pc' = [pc EXCEPT ![w] = r.pc]
    /\ UNCHANGED <<store, last, collection>>

\* index_pipe.run is over: the rest of the loop body
BulkReturn(w) ==
    /\ pc[w] = "returned"
    /\ job' = [job EXCEPT ![w] = BulkReturned(job[w])]
    /\ pc' = [pc EXCEPT ![w] = "loop"]
    /\ UNCHANGED <<store, last, collection>>

\* the loop is over: main returns
BulkEnd(w) ==
    /\ pc[w] = "loop"
    /\ job[w].i >= Len(job[w].files)
    /\ pc' = [pc EXCEPT ![w] = "done"]
    /\ UNCHANGED <<store, last, job, collection>>

NextBulk ==
    \E w \in Workers :
        \/ BulkCheck(w, AnyBatches(NextFile(w)), Outcomes)
        \/ Upload(w, Outcomes)
        \/ BulkReturn(w)
        \/ BulkEnd(w)

SpecBulk == InitBulk /\ [][NextBulk]_vars

(***************************************************************************)
(* Startup: every client constructs a QdrantManager against the collection *)
(* the server holds, request by request, and indexes batches once it has a *)
(* manager.                                                                *)
(***************************************************************************)
\* the collections a server may hold before the program starts
Collections ==
    {Collection(FALSE, FALSE, 0)}
    \cup {Collection(TRUE, dense, size) :
            dense \in BOOLEAN, size \in {VECTOR_DIM \div 2, VECTOR_DIM}}

\* the constructor ended with an exception
Halted(reason) == [NoJob EXCEPT !.op = "init", !.outcome = reason]

InitStartup ==
    /\ store = <<>>
    /\ last = NoCall
    /\ pc = [w \in Workers |-> "new"]
    /\ job = [w \in Workers |-> NoJob]
    /\ collection \in Collections

\* ensure_collection_exists: the collection_exists request
CollectionExists(w) ==
    /\ pc[w] = "new"
    /\ \E ok \in Outcomes :
        /\ pc' = [pc EXCEPT ![w] = IF ~ok THEN "halted"
                                   ELSE IF collection.exists THEN "validate"
                                   ELSE "create"]
        /\ job' = [job EXCEPT ![w] = IF ok THEN @ ELSE Halted("raised")]
    /\ UNCHANGED <<store, last, collection>>

\* ensure_collection_exists: the create_collection request, re-raised when
\* it raises
Create(w) ==
    /\ pc[w] = "create"
    /\ \E create_ok \in Outcomes :
        \E r \in {CreateCollection(collection, create_ok)} :
            /\ collection' = r.collection
            /\ pc' = [pc EXCEPT ![w] = IF r.raised THEN "halted" ELSE "build"]
            /\ job' = [job EXCEPT ![w] =
                        IF r.raised THEN Halted("raised") ELSE @]
    /\ UNCHANGED <<store, last>>

\* ensure_collection_exists: the get_collection request and the check of
\* what it returned
Validate(w) ==
    /\ pc[w] = "validate"
    /\ \E ok \in Outcomes :
        /\ pc' = [pc EXCEPT ![w] =
                    IF ~ok \/ DimensionMismatch(collection)
                    THEN "halted" ELSE "build"]
        /\ job' = [job EXCEPT ![w] =
                    IF ~ok THEN Halted("raised")
                    ELSE IF DimensionMismatch(collection)
                    THEN Halted("ValueError") ELSE @]
    /\ UNCHANGED <<store, last, collection>>

\* the rest of __init__: QdrantVectorStore with its sparse model and the
\* StorageContext are built, or one of them raises
Build(w) ==
    /\ pc[w] = "build"
    /\ \E ok \in Outcomes :
        /\ pc' = [pc EXCEPT ![w] = IF ok THEN "ready" ELSE "halted"]
        /\ job' = [job EXCEPT ![w] = IF ok THEN @ ELSE Halted("raised")]
    /\ UNCHANGED <<store, last, collection>>

\* insert_nodes on the constructed manager, up to its first request
ManagerInsert(w) ==
    /\ pc[w] = "ready"
    /\ \E nodes \in KeyedBatches :
        /\ Room(nodes)
        /\ \E r \in {InsertNodes(NoJob, nodes)} :
            /\ job' = [job EXCEPT ![w] = r.job]
            /\ pc' = [pc EXCEPT ![w] = r.pc]
    /\ UNCHANGED <<store, last, collection>>

\* the call is over and the manager is free for the next one
ManagerReturn(w) ==
    /\ pc[w] = "returned"
    /\ pc' = [pc EXCEPT ![w] = "ready"]
    /\ job' = [job EXCEPT ![w] = NoJob]
    /\ UNCHANGED <<store, last, collection>>

NextStartup ==
    \E w \in Workers :
        \/ CollectionExists(w) \/ Create(w) \/ Validate(w) \/ Build(w)
        \/ ManagerInsert(w)
        \/ Scroll(w, Outcomes) \/ Flip(w, Outcomes) \/ Upload(w, Outcomes)
        \/ ManagerReturn(w)

SpecStartup == InitStartup /\ [][NextStartup]_vars

(***************************************************************************)
(* SOPChunker (src/src/ingestion/chunker.py) on the text of the blocks.    *)
(* A block is [text, metadata]: what MarkdownNodeParser gives for a page,  *)
(* the text from one heading to the next with the page's metadata.         *)
(***************************************************************************)
\* `if len(node.text) > 3000`
CHAR_LIMIT == 3000

\* SentenceSplitter(chunk_size=1024, chunk_overlap=200), both in tokens
CHUNK_SIZE == 1024

CHUNK_OVERLAP == 200

\* the last position of the line that holds position x
LineEnd(text, x) ==
    LET nl == {j \in x..Len(text) : text[j] = "\n"}
    IN  IF nl = {} THEN Len(text)
        ELSE (CHOOSE j \in nl : \A k \in nl : j <= k) - 1

\* (#{1,6}\s+[^\n]+)\s*$ tried at position g, where r is the length of
\* the run of # and w that of the white space behind it: the last position
\* of group 1, 0 when the pattern does not match there.  The run of # is
\* taken whole, \s+ and [^\n]+ are greedy and give back only what the rest
\* needs.
OrphanTail(text, g, r, w) ==
    LET n == Len(text)
        tail == {j \in (g + r + 1)..n : text[j] # "\n"}
    IN  IF r < 1 \/ r > 6 \/ w < 1 THEN 0
        ELSE IF g + r + w <= n
        THEN IF \A j \in (LineEnd(text, g + r + w) + 1)..n :
                    text[j] \in WhiteSpace
             THEN LineEnd(text, g + r + w) ELSE 0
        ELSE IF tail = {} THEN 0
        ELSE CHOOSE j \in tail : \A k \in tail : k <= j

OrphanRun(text, g, r) ==
    OrphanTail(text, g, r, RunLen(text, g + r, WhiteSpace))

OrphanGroupEnd(text, g) == OrphanRun(text, g, RunLen(text, g, {"#"}))

\* the first position of group 1 when (?:^|\n)(...)\s*$ matches at position
\* p, 0 when it does not
GroupAt(text, p) ==
    IF p = 1 /\ OrphanGroupEnd(text, 1) > 0 THEN 1
    ELSE IF text[p] = "\n" /\ p < Len(text)
            /\ OrphanGroupEnd(text, p + 1) > 0 THEN p + 1
    ELSE 0

\* the match at position p whose group 1 starts at position g
OrphanMatch(text, p, g) ==
    [found |-> TRUE, start |-> p - 1,
     header |-> Slice(text, g, OrphanGroupEnd(text, g))]

\* the leftmost of the matches at the positions hits
OrphanFirst(text, hits) ==
    IF hits = {} THEN [found |-> FALSE, start |-> 0, header |-> <<>>]
    ELSE CHOOSE m \in {OrphanMatch(text, p, GroupAt(text, p)) :
                        p \in {q \in hits : \A k \in hits : q <= k}} : TRUE

\* orphan_pattern.search(text): the leftmost match of (?:^|\n)(...)\s*$;
\* start is match.start() (counted from 0), header is match.group(1)
OrphanSearch(text) ==
    OrphanFirst(text, {p \in 1..Len(text) : GroupAt(text, p) > 0})

\* a repair that moves the heading whatever the two blocks come from
AnySource(current_node, next_node) == TRUE

\* curr_src == next_src
SameSource(current_node, next_node) ==
    Get(current_node.metadata, "filename", <<"A">>)
        = Get(next_node.metadata, "filename", <<"B">>)

\* _rebalance_headers(nodes): the while loop from index i on, the next
\* node being modified in place before it is examined
RECURSIVE RebalanceFrom(_, _)
\* the current node with its text cut, dropped when nothing is left
Shortened(current_node, cut, rest) ==
    IF cut # <<>> THEN <<[current_node EXCEPT !.text = cut]>> \o rest
    ELSE rest

\* the pass over node i, which has a next node, with the result of the
\* search in its text
Rebalance(nodes, i, match) ==
    IF match.found /\ SameSource(nodes[i], nodes[i + 1])
    THEN Shortened(nodes[i], Strip(Slice(nodes[i].text, 1, match.start)),
                   RebalanceFrom(
                       [nodes EXCEPT ![i + 1].text =
                            match.header \o <<"\n", "\n">>
                            \o nodes[i + 1].text], i + 1))
    ELSE <<nodes[i]>> \o RebalanceFrom(nodes, i + 1)

RebalanceFrom(nodes, i) ==
    IF i > Len(nodes) THEN <<>>
    ELSE IF i = Len(nodes)
    THEN IF Strip(nodes[i].text) # <<>> THEN <<nodes[i]>> ELSE <<>>
    ELSE Rebalance(nodes, i, OrphanSearch(nodes[i].text))

RebalanceHeaders(nodes) == RebalanceFrom(nodes, 1)

\* self.text_splitter.get_nodes_from_documents([temp_doc]): a text of at
\* most chunk_size tokens comes back whole, a longer one in windows of
\* chunk_size tokens that overlap by chunk_overlap.  The tokenizer is the
\* library's: chars_per_token is the number of characters it packs into a
\* token of this text.
SentenceSplit(text, chars_per_token) ==
    LET size == CHUNK_SIZE * chars_per_token
        step == (CHUNK_SIZE - CHUNK_OVERLAP) * chars_per_token
        more == Len(text) - size
        count == 1 + (more + step - 1) \div step
    IN  IF more <= 0 THEN <<text>>
        ELSE [j \in 1..count |->
                Slice(text, (j - 1) * step + 1,
                      IF (j - 1) * step + size < Len(text)
                      THEN (j - 1) * step + size ELSE Len(text))]

\* _get_header_path(node)
GetHeaderPath(metadata) ==
    IF Truthy(metadata, "header_path")
    THEN Replace(metadata["header_path"], <<"/">>, <<" ", ">", " ">>)
    ELSE GeneralSection

\* the f-string of context_str
CitationHeader(sop_name, version, page_label, header_context) ==
    <<"C","O","N","T","E","X","T",":"," ","D","o","c",":"," ">> \o sop_name
    \o <<" ","|"," ","V","e","r",":"," ">> \o version
    \o <<" ","|"," ","P","a","g","e",":"," ">> \o page_label
    \o <<"\n","S","E","C","T","I","O","N",":"," ">> \o header_context
    \o <<"\n">> \o [i \in 1..30 |-> "-"] \o <<"\n">>

\* context_str for a sub node with this metadata
ContextStr(metadata) ==
    CitationHeader(
        Get(metadata, "sop_title", Get(metadata, "filename", Unknown)),
        Get(metadata, "version", <<"N", "/", "A">>),
        Get(metadata, "page_label", <<"N", "/", "A">>),
        GetHeaderPath(metadata))

\* steps 2 and 3 of chunk_documents for one block: the safety split, then
\* the context injection into every sub node
InjectContext(node, chars_per_token) ==
    LET sub_texts == IF Len(node.text) > CHAR_LIMIT
                     THEN SentenceSplit(node.text, chars_per_token)
                     ELSE <<node.text>>
    IN  [j \in 1..Len(sub_texts) |->
            [text |-> ContextStr(node.metadata) \o sub_texts[j],
             metadata |-> SetKey(node.metadata, "context_header",
                                 GetHeaderPath(node.metadata))]]

\* steps 2 and 3 for every block
InjectAll(nodes, chars_per_token) ==
    Flatten([k \in 1..Len(nodes) |->
                InjectContext(nodes[k], chars_per_token)])

\* chunk_documents, from the blocks the Markdown parser gave
ChunkBlocks(base_nodes, chars_per_token) ==
    InjectAll(RebalanceHeaders(base_nodes), chars_per_token)

\* self.markdown_parser.get_nodes_from_documents(documents): every block
\* has an id, and the parser links a block to its neighbours that come from
\* the same document; <<>> stands for a relationship that is not set
ParserLinks(base_nodes) ==
    [i \in 1..Len(base_nodes) |->
        [text |-> base_nodes[i].text,
         metadata |-> base_nodes[i].metadata,
         node_id |-> <<"block", i>>,
         relationships |->
            [PREVIOUS |-> IF i > 1 /\ base_nodes[i - 1].metadata
                                        = base_nodes[i].metadata
                          THEN <<"block", i - 1>> ELSE <<>>,
             NEXT |-> IF i < Len(base_nodes)
                         /\ base_nodes[i + 1].metadata = base_nodes[i].metadata
                      THEN <<"block", i + 1>> ELSE <<>>]]]

\* the relationships of the n sub nodes of a block: those of the block, or
\* those the splitter sets among the parts of a split block
SubLinks(node, n) ==
    IF Len(node.text) > CHAR_LIMIT
    THEN [j \in 1..n |->
            [PREVIOUS |-> IF j > 1 THEN <<"part", j - 1>> ELSE <<>>,
             NEXT |-> IF j < n THEN <<"part", j + 1>> ELSE <<>>]]
    ELSE <<node.relationships>>

\* the relationships the new nodes take over from their sub nodes
TakenLinks(rebalanced, chars_per_token) ==
    Flatten([k \in 1..Len(rebalanced) |->
                SubLinks(rebalanced[k],
                         Len(InjectContext(rebalanced[k], chars_per_token)))])

\* step 4: PREVIOUS is set on every node but the first and NEXT on every
\* node but the last
LinkNodes(taken) ==
    [i \in 1..Len(taken) |->
        [node_id |-> <<"node", i>>,
         relationships |->
            [PREVIOUS |-> IF i > 1 THEN <<"node", i - 1>>
                          ELSE taken[i].PREVIOUS,
             NEXT |-> IF i < Len(taken) THEN <<"node", i + 1>>
                      ELSE taken[i].NEXT]]]

\* the ids and the relationships of the nodes chunk_documents returns
ChunkLinks(base_nodes, chars_per_token) ==
    LinkNodes(TakenLinks(RebalanceHeaders(ParserLinks(base_nodes)),
                         chars_per_token))

\* the text of an emitted passage after its context string
Body(node) ==
    Slice(node.text, Len(ContextStr(node.metadata)) + 1, Len(node.text))

(***************************************************************************)
(* The chunker alone: worker 1 holds the blocks of one call, job[1], and   *)
(* chunk_documents is applied to them.                                     *)
(***************************************************************************)
Boilerplate == <<"n","/","a">>

\* a body one character over the limit of the safety split
LongBody == [i \in 1..(CHAR_LIMIT + 1) |-> IF i % 5 = 0 THEN " " ELSE "w"]

\* the texts of the blocks: a heading line and nothing else, the text of a
\* page before its first heading, a heading and its body, a body whose last
\* line is a heading, a boilerplate body and an overlong one
BlockTexts ==
    {<<"#","#"," ","S">>,
     <<"A","p","p","l","i","e","s"," ","t","o"," ","a","l","l",".">>,
     <<"#"," ","P","\n","K","e","e","p"," ","c","l","e","a","n",".">>,
     <<"D","o","n","e",".","\n","#","#"," ","S">>,
     Boilerplate, LongBody}

\* the metadata of the documents process_file hands to the chunker for the
\* two files, in the order of a batch: the content pages of the first, then
\* of the second (a set of one list)
PipelineDocuments ==
    UNION {{[i \in 1..Len(first) |-> first[i].metadata]
            \o [i \in 1..Len(second) |-> second[i].metadata] :
                first \in {CleanDocuments(
                                LoadFile(ExtractMetadata(SOP_X_Rev06),
                                         FilePages(2, FALSE)))}} :
            second \in {CleanDocuments(
                            LoadFile(ExtractMetadata(SOP_X_Rev07),
                                     FilePages(1, FALSE)))}}

\* what the caller and the Markdown parser may add to a document's metadata
WithKeys(metadata, keys) ==
    LET a == IF keys = "filename"
             THEN SetKey(metadata, "filename", metadata["file_name"])
             ELSE metadata
    IN  IF keys = "header_path"
        THEN SetKey(a, "header_path", <<"/","P","/","S","/">>)
        ELSE a

\* the block lists of one call: the blocks follow the order of the documents
BlockLists(documents) ==
    UNION {
        {[i \in 1..n |->
            [text |-> texts[i],
             metadata |-> WithKeys(documents[docs[i]], keys)]] :
            texts \in [1..n -> BlockTexts],
            docs \in {d \in [1..n -> 1..Len(documents)] :
                        \A i \in 1..(n - 1) : d[i] <= d[i + 1]},
            keys \in {"none", "filename", "header_path"}} :
        n \in 1..MaxBlocks}

ChunkInputs == UNION {BlockLists(documents) : documents \in PipelineDocuments}

InitChunk ==
    /\ store = <<>>
    /\ last = NoCall
    /\ pc = [w \in Workers |-> IF w = 1 THEN "chunk" ELSE "idle"]
    /\ collection = Created
    /\ \E base_nodes \in ChunkInputs :
        job = [w \in Workers |->
                IF w = 1 THEN [nodes |-> base_nodes] ELSE NoJob]

\* chunker.chunk_documents(documents)
Chunk ==
    /\ pc[1] = "chunk"
    /\ \E chars_per_token \in {1, 4} :
        last' = [op |-> "chunk",
                 rebalanced |-> RebalanceHeaders(job[1].nodes),
                 nodes |-> ChunkBlocks(job[1].nodes, chars_per_token),
                 links |-> ChunkLinks(job[1].nodes, chars_per_token)]
    /\ pc' = [pc EXCEPT ![1] = "done"]
    /\ UNCHANGED <<store, job, collection>>

SpecChunk == InitChunk /\ [][Chunk]_vars

(***************************************************************************)
(* Serialized ingestion over a library that holds a PDF whose sop_meta     *)
(* held no version: its passages were stored with the default              *)
(* version_number "Unknown".                                               *)
(***************************************************************************)
InitUnversioned ==
    /\ store \in UNION {
            Indexed(<<>>, ProcessPages(PdfPages(<<"1">>, n, second),
                                       T1 \o <<".","p","d","f">>,
                                       [document_title |-> T1,
                                        document_number |-> D1,
                                        language |-> "en"],
                                       LANGUAGE_PHRASES["en"])) :
            n \in 2..MaxNodes, second \in {"plain", "toc"}}
    /\ last = NoCall
    /\ pc = [w \in Workers |-> "idle"]
    /\ job = [w \in Workers |-> NoJob]
    /\ collection = Created

SpecUnversioned == InitUnversioned /\ [][NextSerial]_vars

(***************************************************************************)
(* A batch run that is killed and started again (scripts/bulk_ingest.py).  *)
(* The input directory stays as it is between the two runs: job[1].pages   *)
(* holds the number of pages of every file.  No request fails here; the    *)
(* only fault is the death of the process, at any point of the loop.       *)
(***************************************************************************)
MaxPages == 4

\* the pages of a file of k pages
PagesOf(k) == IF k = 0 THEN <<>> ELSE FilePages(k - 1, FALSE)

\* ingest_pipe.run for every file and number of pages of the directory
ResumeRuns ==
    [f \in FileNames, pages \in 0..MaxPages |->
        IngestPipeRun(f, PagesOf(pages), FALSE)]

\* what ingest_pipe.run gives for file f of the directory
ResumeBatches(f) == {ResumeRuns[f, job[1].pages[f]]}

InitResume ==
    /\ store = <<>>
    /\ last = NoCall
    /\ pc = [w \in Workers |-> IF w = 1 THEN "loop" ELSE "idle"]
    /\ \E all_files \in AllFiles,
          pages \in [FileNames -> 0..MaxPages] :
        job = [w \in Workers |->
                IF w = 1 THEN BulkStart(all_files) @@ [pages |-> pages]
                ELSE NoJob]
    /\ collection = Created

\* the process dies: between two files, before an upload request or before
\* the bookkeeping of the file it has indexed
Kill ==
    /\ pc[1] \in {"loop", "write", "returned"}
    /\ pc' = [pc EXCEPT ![1] = "crashed"]
    /\ UNCHANGED <<store, last, job, collection>>

\* main is started again on the same directory
Rerun ==
    /\ pc[1] = "crashed"
    /\ job' = [job EXCEPT
                ![1] = BulkStart(job[1].files) @@ [pages |-> job[1].pages]]
    /\ pc' = [pc EXCEPT ![1] = "loop"]
    /\ UNCHANGED <<store, last, collection>>

NextResume ==
    \/ BulkCheck(1, ResumeBatches(NextFile(1)), {TRUE})
    \/ Upload(1, {TRUE})
    \/ BulkReturn(1)
    \/ BulkEnd(1)
    \/ Kill
    \/ Rerun

SpecResume == InitResume /\ [][NextResume]_vars

(***************************************************************************)
(* Version resolution alone: worker 1 holds two file names, job[1], and    *)
(* extract_metadata is applied to both.                                    *)
(***************************************************************************)
\* file names of one document with explicit version markers
VersionedFiles ==
    {<<"S","O","P","_","X","_">> \o marker \o <<".","p","d","f">> :
        marker \in {<<"R","e","v","0","6">>, <<"R","e","v","0","7">>,
                    <<"R","e","v","1","0">>, <<"v","1",".","0">>,
                    <<"v","2",".","5">>, <<"v","1",".","9">>,
                    <<"v","1",".","1","0">>, <<"v","1",".","2",".","3">>,
                    <<"v","2">>, <<"v","e","r","-","3">>}}

InitVersion ==
    /\ store = <<>>
    /\ last = NoCall
    /\ pc = [w \in Workers |-> IF w = 1 THEN "resolve" ELSE "idle"]
    /\ collection = Created
    /\ \E a \in VersionedFiles, b \in VersionedFiles :
        job = [w \in Workers |-> IF w = 1 THEN [a |-> a, b |-> b] ELSE NoJob]

\* VersionManager.extract_metadata on each of the two file names
ResolveVersions ==
    /\ pc[1] = "resolve"
    /\ \E meta \in {[f \in VersionedFiles |-> ExtractMetadata(f)]} :
        last' = [op |-> "versions", a |-> meta[job[1].a],
                 b |-> meta[job[1].b]]
    /\ pc' = [pc EXCEPT ![1] = "done"]
    /\ UNCHANGED <<store, job, collection>>

SpecVersion == InitVersion /\ [][ResolveVersions]_vars

(***************************************************************************)
(* Properties                                                              *)
(***************************************************************************)
Status(p) == Get(p, "status", "unset")

\* j holds the variables of an insert_nodes call on a batch that is not empty
IsInsert(j) == j.op = "insert" /\ j.nodes # <<>>

\* ... whose first node carries a document number
Keyed(j) == IsInsert(j) /\ Truthy(j.nodes[1], "document_number")

\* this step is a request, or the return, of the insert_nodes call client w
\* runs
InsertStep(w) ==
    /\ pc[w] \in {"scroll", "flip", "write"}
    /\ <<pc[w], job[w]>> # <<pc'[w], job'[w]>>

\* the stored points that are Active under the key of the batch nodes
ActiveUnderKey(s, nodes) ==
    {i \in 1..Len(s) : ActiveMatch(s[i], DocNum(nodes), SopTitle(nodes))}

\* the numeric version a stored passage was ingested with
PassageVersion(p) ==
    IF HasKey(p, "version_float") THEN p["version_float"]
    ELSE ExistingVersion(p).val

\* two passages of the same logical document
SameDocument(p, r) ==
    /\ Get(p, "sop_title", <<>>) = Get(r, "sop_title", <<>>)
    /\ Get(p, "document_number", <<>>) = Get(r, "document_number", <<>>)

\* C1: focused answer retrieval never returns a passage whose stored status
\* is Inactive, also when an Inactive passage is the best match of the
\* query: every source of a query is an Active point of the store the query
\* ran on.
C1_Step ==
    \A w \in Workers :
        (pc[w] = "idle" /\ pc'[w] = "returned" /\ job'[w].op = "query") =>
            \A k \in 1..Len(job'[w].sources) :
                Status(store[job'[w].sources[k].point]) = "Active"

C1_QueryReturnsOnlyActive == [][C1_Step]_vars

\* a query whose best-scoring stored passage is Inactive returned sources
C1_Witness ==
    \E w \in Workers :
        /\ pc[w] = "returned"
        /\ job[w].op = "query" /\ job[w].outcome = "answer"
        /\ job[w].sources # <<>>
        /\ job[w].q \in 1..Len(store)
        /\ Status(store[job[w].q]) = "Inactive"
        /\ \A k \in 1..Len(job[w].sources) :
            /\ Score(job[w].q, job[w].q) > job[w].sources[k].score
            /\ Status(store[job[w].sources[k].point]) = "Active"

\* C2: after any sequence of serialized inserts of revisions of one document,
\* exactly one revision's passages are Active for it, and it is the highest
\* numeric version ever ingested.
C2_MonotonicVisibility ==
    pc[1] \in {"idle", "returned"} =>
        \A i \in 1..Len(store) :
            LET group == {j \in 1..Len(store) :
                            SameDocument(store[j], store[i])}
                active == {PassageVersion(store[j]) :
                            j \in {x \in group : Status(store[x]) = "Active"}}
            IN  /\ Cardinality(active) = 1
                /\ \A j \in group :
                    \A v \in active : LessEqual(PassageVersion(store[j]), v)

\* C3: arbitration follows the decision table for incoming version N against
\* the version E of the Active passage of the key that the scroll returned:
\* none Active -> Active; N > E -> Active, and the set_payload request that
\* follows makes every Active passage of the key Inactive; N < E ->
\* Inactive; N = E -> Active.  The batch is written with the status decided.
C3_Step ==
    \A w \in Workers :
        /\ (/\ pc[w] = "scroll"
            /\ job'[w].queried /\ job'[w].outcome # "raised") =>
            LET N == IncomingVersion(job[w].nodes[1])
                decided(status, flip) ==
                    /\ job'[w].status = status
                    /\ job'[w].flip = flip
                    /\ pc'[w] = IF flip THEN "flip" ELSE "write"
            IN  IF ActiveUnderKey(store, job[w].nodes) = {}
                THEN decided("Active", FALSE)
                ELSE \E i \in ActiveUnderKey(store, job[w].nodes) :
                        LET E == ExistingVersion(store[i]).val
                        IN  /\ Greater(N, E) => decided("Active", TRUE)
                            /\ Less(N, E) => decided("Inactive", FALSE)
                            /\ FloatEqual(N, E) => decided("Active", FALSE)
        /\ (pc[w] = "flip" /\ pc'[w] = "write") =>
            /\ job'[w].status = "Active"
            /\ \A i \in ActiveUnderKey(store, job[w].nodes) :
                Status(store'[i]) = "Inactive"
        /\ (/\ pc[w] = "write" /\ Keyed(job[w])
            /\ job'[w].added > job[w].added) =>
            \A i \in (Len(store) + 1)..Len(store') :
                Status(store'[i]) = job[w].status

C3_DecisionTable == [][C3_Step]_vars

\* an insert with N > E went through: an older passage of the key is
\* Inactive and the incoming batch stands in the store as Active
C3_Witness ==
    \E w \in Workers :
        /\ pc[w] = "returned" /\ Keyed(job[w])
        /\ job[w].outcome = "index"
        /\ job[w].flip /\ job[w].status = "Active"
        /\ \E i \in 1..Len(store) :
            /\ KeyMatch(store[i], DocNum(job[w].nodes), SopTitle(job[w].nodes))
            /\ Status(store[i]) = "Inactive"
            /\ Less(ExistingVersion(store[i]).val,
                    IncomingVersion(job[w].nodes[1]))
        /\ \A k \in 1..Len(job[w].nodes) :
            \E i \in 1..Len(store) :
                store[i] = SetKey(job[w].nodes[k], "status", "Active")

\* C4: when the incoming batch is older than the Active revision of its key
\* that the arbitration compared it with (N < E), no request of the call
\* changes a stored passage: no set_payload follows and the passages
\* written are the incoming ones, as Inactive.
C4_Step ==
    \A w \in Workers :
        (InsertStep(w) /\ job'[w].status = "Inactive") =>
            /\ pc[w] = "scroll" =>
                \E i \in ActiveUnderKey(store, job[w].nodes) :
                    Less(IncomingVersion(job[w].nodes[1]),
                         ExistingVersion(store[i]).val)
            /\ pc'[w] # "flip"
            /\ Len(store') >= Len(store)
            /\ \A i \in 1..Len(store) : store'[i] = store[i]
            /\ \A i \in (Len(store) + 1)..Len(store') :
                store'[i] = SetKey(job[w].nodes[job[w].added + i - Len(store)],
                                   "status", "Inactive")

C4_OlderLeavesStoreAlone == [][C4_Step]_vars

\* an older batch was written as Inactive next to the newer Active revision
C4_Witness ==
    \E w \in Workers :
        /\ pc[w] = "returned" /\ Keyed(job[w])
        /\ job[w].outcome = "index" /\ job[w].status = "Inactive"
        /\ \E i \in ActiveUnderKey(store, job[w].nodes) :
            Greater(ExistingVersion(store[i]).val,
                    IncomingVersion(job[w].nodes[1]))
        /\ \A k \in 1..Len(job[w].nodes) :
            \E i \in 1..Len(store) :
                store[i] = SetKey(job[w].nodes[k], "status", "Inactive")

\* C5: inserting the same revision twice leaves one set of passages for that
\* title and version: no page of a file is stored twice.
C5_NoDuplicatePassages ==
    \A i \in 1..Len(store) : \A j \in 1..Len(store) :
        (/\ i # j
         /\ SameDocument(store[i], store[j])
         /\ store[i]["file_name"] = store[j]["file_name"])
        => store[i]["page_label"] # store[j]["page_label"]

\* C6: for files taken through process_file, whenever passages of
\* SOP_X_Rev07.pdf are stored they are Active and every stored passage of
\* SOP_X_Rev06.pdf is Inactive, in whatever order and however often the two
\* files were ingested.
C6_Rev07Supersedes ==
    \A i \in 1..Len(store) : \A j \in 1..Len(store) :
        (store[i]["file_name"] = SOP_X_Rev06
         /\ store[j]["file_name"] = SOP_X_Rev07)
        => (Status(store[i]) = "Inactive" /\ Status(store[j]) = "Active")

\* C7: when two inserts of two revisions of one title run concurrently on a
\* collection that holds nothing else, every interleaving ends with only
\* the highest revision's passages Active.
C7_RaceEndsWithHighestActive ==
    (/\ \A w \in Workers :
            /\ pc[w] = "returned" /\ Keyed(job[w])
            /\ job[w].outcome = "index"
     /\ DocNum(job[1].nodes) = DocNum(job[2].nodes)
     /\ SopTitle(job[1].nodes) = SopTitle(job[2].nodes)
     /\ ~FloatEqual(IncomingVersion(job[1].nodes[1]),
                    IncomingVersion(job[2].nodes[1]))
     /\ Len(store) = Len(job[1].nodes) + Len(job[2].nodes)) =>
        \A i \in 1..Len(store) :
            Status(store[i]) = "Active" =>
                \A j \in 1..Len(store) :
                    LessEqual(PassageVersion(store[j]),
                              PassageVersion(store[i]))

\* C8: a batch is stored as Active only after insert_nodes completed a
\* successful query of the store for Active passages of its key.
C8_ActiveOnlyAfterQuery ==
    (IsInsert(job[1]) /\ job[1].added >= 1 /\ job[1].status = "Active")
        => job[1].queried

\* C9: if the store query of the arbitration fails, insert_nodes persists no
\* incoming passage and changes no stored passage: the call ends there.
C9_Step ==
    \A w \in Workers :
        (/\ Keyed(job[w])
         /\ pc[w] = "scroll" /\ pc'[w] # "scroll"
         /\ ~job'[w].queried) =>
            /\ store' = store
            /\ pc'[w] = "returned"
            /\ job'[w].added = 0
            /\ job'[w].outcome = "raised"

C9_FailsClosed == [][C9_Step]_vars

\* the query failed for a key that has Active passages in the store
C9_Witness ==
    \E w \in Workers :
        /\ pc[w] = "returned" /\ Keyed(job[w])
        /\ ~job[w].queried /\ job[w].outcome = "raised"
        /\ ActiveUnderKey(store, job[w].nodes) # {}

\* C10: insert_nodes reports a failed store write as a return value and
\* never by raising.
C10_WriteFailureIsReturned ==
    (pc[1] = "returned" /\ IsInsert(job[1]) /\ job[1].status # "unset")
        => job[1].outcome # "raised"

\* C11: no request of an insert_nodes call removes a stored passage: the
\* stored passages stay in place, new ones are only added, and a stored
\* passage changes in nothing but its status field, which becomes Inactive.
C11_Step ==
    (\E w \in Workers : InsertStep(w)) =>
        /\ Len(store') >= Len(store)
        /\ \A i \in 1..Len(store) :
            \/ store'[i] = store[i]
            \/ store'[i] = SetKey(store[i], "status", "Inactive")

C11_NoPhysicalDelete == [][C11_Step]_vars

\* a version update went through: a revision was retired, it is still
\* stored, and the new revision stands behind it
C11_Witness ==
    \E w \in Workers :
        /\ pc[w] = "returned" /\ Keyed(job[w])
        /\ job[w].outcome = "index" /\ job[w].flip
        /\ job[w].added = Len(job[w].nodes)
        /\ \E i \in 1..Len(store) : \E j \in 1..Len(store) :
            /\ i < j
            /\ KeyMatch(store[i], DocNum(job[w].nodes), SopTitle(job[w].nodes))
            /\ Status(store[i]) = "Inactive"
            /\ store[i]["version_number"] # job[w].nodes[1]["version_number"]
            /\ store[j] = SetKey(job[w].nodes[1], "status", "Active")

\* C12: a stored passage's status is Active or Inactive; the only change of
\* status of an already stored passage that ingestion makes is Active ->
\* Inactive, made by the insert of a strictly newer revision of the
\* passage's key; no stored Inactive passage becomes Active again.
C12_Step ==
    (\E w \in Workers : InsertStep(w)) =>
        /\ \A i \in 1..Len(store') :
            Status(store'[i]) \in {"Active", "Inactive"}
        /\ \A i \in 1..Len(store) :
            Status(store'[i]) # Status(store[i]) =>
                /\ Status(store[i]) = "Active"
                /\ Status(store'[i]) = "Inactive"
                /\ \E w \in Workers :
                    /\ InsertStep(w) /\ Keyed(job[w])
                    /\ KeyMatch(store[i], DocNum(job[w].nodes),
                                SopTitle(job[w].nodes))
                    /\ Greater(IncomingVersion(job[w].nodes[1]),
                               ExistingVersion(store[i]).val)

C12_TwoStatesOneTransition == [][C12_Step]_vars

\* C13: a failing retrieval ends in an explicit empty result: query returns
\* its error answer with an empty sources list, search returns the empty
\* list, and no exception leaves either call.
C13_RetrievalDegrades ==
    /\ \A w \in Workers :
        job[w].op = "query" =>
            /\ pc[w] = "returned"
            /\ job[w].outcome \in {"invalid", "error", "answer"}
            /\ job[w].outcome = "error" => job[w].sources = <<>>
    /\ last.op = "search" =>
        /\ last.outcome \in {"empty", "error", "results"}
        /\ last.outcome = "error" => last.results = <<>>

\* the retrieval of a search failed although an Active passage holds one
\* of the search terms
C13_Witness ==
    /\ last.op = "search" /\ last.outcome = "error"
    /\ \E i \in 1..Len(store) :
        /\ Status(store[i]) = "Active"
        /\ PatternFound(OriginalText(store[i]), FilteredTerms(last.term))

\* C14: a file that yields no passages, fails in the store or raises never
\* ends the batch: process_file returns the empty list when a stage raises,
\* and when the loop of main is over it has handled every file of the
\* directory, in order.
C14_BatchGoesOn ==
    /\ \A f \in FileNames : \A pages \in FileLayouts :
        PipeRuns[f, pages, TRUE] = <<>>
    /\ \A w \in Workers :
        /\ Len(job[w].seen) = job[w].i
        /\ pc[w] = "done" =>
            /\ Len(job[w].seen) = Len(job[w].files)
            /\ \A k \in 1..Len(job[w].files) :
                job[w].seen[k].file = job[w].files[k]

\* the first file failed in the store and the loop still handled the second
C14_Witness ==
    \E w \in Workers :
        /\ pc[w] = "done"
        /\ Len(job[w].seen) = 2
        /\ job[w].seen[1].outcome = "error"
        /\ job[w].seen[2].outcome = "done"

\* C15: when the existing collection has no dense vector of the expected
\* dimension, the construction of QdrantManager raises: no client gets
\* beyond the check of the collection, no insert_nodes call runs and
\* nothing is written to the collection.
C15_MismatchIsFatal ==
    (collection.exists
     /\ (~collection.dense \/ collection.size # VECTOR_DIM)) =>
        /\ \A w \in Workers : pc[w] \in {"new", "validate", "halted"}
        /\ store = <<>>

\* the constructor raised on a collection of another dimension
C15_Witness ==
    \E w \in Workers :
        /\ pc[w] = "halted" /\ job[w].outcome = "ValueError"
        /\ collection.exists /\ collection.dense
        /\ collection.size # VECTOR_DIM

IsPrefix(p, s) == Len(p) <= Len(s) /\ SubSeq(s, 1, Len(p)) = p

IsSuffix(p, s) ==
    Len(p) <= Len(s) /\ SubSeq(s, Len(s) - Len(p) + 1, Len(s)) = p

\* the source file a block was read from
SourceFile(node) == node.metadata["file_name"]

\* C16: when the first two blocks of a call come from the same source file,
\* the first ends in a heading line and the second does not, the repaired
\* output has the heading line at the start of the second block and no
\* longer in the first, and a first block left empty is not in the output.
C16_OrphanHeadingMoved ==
    (/\ last.op = "chunk"
     /\ Len(job[1].nodes) >= 2
     /\ SourceFile(job[1].nodes[1]) = SourceFile(job[1].nodes[2])
     /\ OrphanSearch(job[1].nodes[1].text).found
     /\ ~OrphanSearch(job[1].nodes[2].text).found) =>
        LET nodes == job[1].nodes
            match == OrphanSearch(nodes[1].text)
            cut == Strip(Slice(nodes[1].text, 1, match.start))
            k == IF cut = <<>> THEN 1 ELSE 2
            out == last.rebalanced
        IN  /\ Len(out) = Len(nodes) - (2 - k)
            /\ cut # <<>> => out[1].text = cut
            /\ out[k].text
                 = match.header \o <<"\n", "\n">> \o nodes[2].text

\* C17: where two adjacent blocks of a call come from different source
\* files, the first is emitted with its last lines as they were and the
\* second with nothing put before its text; a call of two such blocks
\* returns both unchanged.
C17_NoMoveAcrossDocuments ==
    last.op = "chunk" =>
        LET nodes == job[1].nodes
            out == last.rebalanced
        IN  /\ (Len(nodes) = 2 /\ SourceFile(nodes[1]) # SourceFile(nodes[2]))
                   => out = nodes
            /\ \A i \in 1..(Len(nodes) - 1) :
                SourceFile(nodes[i]) # SourceFile(nodes[i + 1]) =>
                    \E k \in 1..(Len(out) - 1) :
                        /\ SourceFile(out[k]) = SourceFile(nodes[i])
                        /\ SourceFile(out[k + 1]) = SourceFile(nodes[i + 1])
                        /\ IsSuffix(nodes[i].text, out[k].text)
                        /\ \/ IsPrefix(out[k + 1].text, nodes[i + 1].text)
                           \/ IsPrefix(nodes[i + 1].text, out[k + 1].text)

\* a call of two blocks of different files whose metadata carries filename,
\* the first of them a heading line: both came back as they were
C17_Witness ==
    /\ last.op = "chunk"
    /\ Len(job[1].nodes) = 2
    /\ SourceFile(job[1].nodes[1]) # SourceFile(job[1].nodes[2])
    /\ HasKey(job[1].nodes[1].metadata, "filename")
    /\ OrphanSearch(job[1].nodes[1].text).found
    /\ last.rebalanced = job[1].nodes

\* C18: no passage emitted by chunk_documents has a body, the context
\* string left out, longer than the character limit of the safety split.
C18_BodyWithinBudget ==
    last.op = "chunk" =>
        \A k \in 1..Len(last.nodes) : Len(Body(last.nodes[k])) <= CHAR_LIMIT

\* C19: every passage emitted by chunk_documents begins with the citation
\* header built from the title and the version extract_metadata resolved
\* for its file, its page label and its section breadcrumb.
C19_HeaderCarriesResolvedVersion ==
    last.op = "chunk" =>
        \A k \in 1..Len(last.nodes) :
            LET metadata == last.nodes[k].metadata
            IN  IsPrefix(CitationHeader(metadata["sop_title"],
                                        metadata["version_original"],
                                        metadata["page_label"],
                                        GetHeaderPath(metadata)),
                         last.nodes[k].text)

\* the phrases that make a body boilerplate
BoilerplatePhrases ==
    {<<"n","o","t"," ","a","p","p","l","i","c","a","b","l","e">>,
     <<"n","o","n","e">>, <<"n","/","a">>}

\* C20: no emitted passage has a body, the header left out, shorter than
\* the smallest minimum content threshold (15 characters) or equal to a
\* boilerplate phrase.
C20_NoThinPassages ==
    last.op = "chunk" =>
        \A k \in 1..Len(last.nodes) :
            /\ Len(Strip(Body(last.nodes[k]))) >= 15
            /\ Lower(Strip(Body(last.nodes[k]))) \notin BoilerplatePhrases

\* the text holds one of the terms as a whole word, whatever the case
HasTerm(text, terms) ==
    \E k \in 1..Len(terms) : \E p \in 1..Len(text) : TermAt(text, p, terms[k])

\* the candidates of the finished search call that hold one of its terms
Matching ==
    {c \in {job[1].cands[k] : k \in 1..Len(job[1].cands)} :
        HasTerm(OriginalText(store[c]), FilteredTerms(job[1].term))}

\* C21: a finished search with search terms whose retrieval succeeded
\* returns exactly one group for every title that has a candidate holding
\* one of the terms, each group is built from exactly those candidates of
\* its title, and a candidate that holds none of the terms is in no group.
C21_OrSemantics ==
    (pc[1] = "done" /\ last.op = "search" /\ last.outcome = "results") =>
        /\ {last.results[g].title : g \in 1..Len(last.results)}
             = {store[c]["sop_title"] : c \in Matching}
        /\ Len(last.results)
             = Cardinality({store[c]["sop_title"] : c \in Matching})
        /\ \A g \in 1..Len(last.results) :
            last.results[g].points
              = {c \in Matching :
                    store[c]["sop_title"] = last.results[g].title}

\* a query of two terms, two candidates of two titles: one holds a single
\* term and makes the only group, the other holds none
C21_Witness ==
    /\ pc[1] = "done" /\ last.op = "search" /\ last.outcome = "results"
    /\ Len(FilteredTerms(job[1].term)) = 2
    /\ Len(job[1].cands) = 2
    /\ Cardinality(Matching) = 1
    /\ store[job[1].cands[1]]["sop_title"]
         # store[job[1].cands[2]]["sop_title"]
    /\ Len(last.results) = 1

\* the score the retriever gave to stored point c in the finished call
ScoreOf(c) ==
    job[1].scores[CHOOSE k \in 1..Len(job[1].cands) : job[1].cands[k] = c]

\* the largest score among the candidates group g of the returned list was
\* built from
BestScore(g) ==
    ScoreOf(CHOOSE c \in last.results[g].points :
                \A d \in last.results[g].points :
                    LessEqual(ScoreOf(d), ScoreOf(c)))

\* C22: in the list a search returns, the score reported for a group is
\* the largest score among the matching candidates of the group, and the
\* groups stand in descending order of that score.
C22_BestScoreDescending ==
    (pc[1] = "done" /\ last.op = "search" /\ last.outcome = "results") =>
        /\ \A g \in 1..Len(last.results) :
            FloatEqual(last.results[g].relevance, BestScore(g))
        /\ \A g \in 1..(Len(last.results) - 1) :
            LessEqual(BestScore(g + 1), BestScore(g))

\* the numbers of a dotted version, 1.10 giving <<1, 10>>
VersionParts(v) ==
    LET parts == Split(Replace(v, <<".">>, <<" ">>))
    IN  [i \in 1..Len(parts) |-> DigitsToInt(parts[i])]

\* revision x comes before revision y as a reader orders them: part by
\* part as numbers, a missing part counting as 0
RECURSIVE HumanLess(_, _)
HumanLess(x, y) ==
    LET a == IF x = <<>> THEN 0 ELSE Head(x)
        b == IF y = <<>> THEN 0 ELSE Head(y)
    IN  IF x = <<>> /\ y = <<>> THEN FALSE
        ELSE IF a # b THEN a < b
        ELSE HumanLess(IF x = <<>> THEN x ELSE Tail(x),
                       IF y = <<>> THEN y ELSE Tail(y))

\* C23: of two file names with explicit version markers, the one a reader
\* takes for the earlier revision has the smaller version_float.
C23_VersionOrderIsHumanOrder ==
    last.op = "versions" =>
        (HumanLess(VersionParts(last.a["version_original"]),
                   VersionParts(last.b["version_original"]))
            => Less(last.a["version_float"], last.b["version_float"]))


\* the store one run of main leaves that nothing interrupts, started on
\* the store s with the files from position i + 1 on
RECURSIVE UninterruptedRun(_, _, _, _)
UninterruptedRun(s, files, pages, i) ==
    IF i >= Len(files) THEN s
    ELSE UninterruptedRun(
            CHOOSE t \in
                {IF FileAlreadyIndexed(s, files[i + 1], TRUE) \/ nodes = <<>>
                 THEN s ELSE CHOOSE x \in Indexed(s, nodes) : TRUE :
                    nodes \in {ResumeRuns[files[i + 1], pages[files[i + 1]]]}} :
                TRUE,
            files, pages, i + 1)

\* C24: a batch run that was killed at any point and started again ends
\* with the same stored passages as one run that nothing interrupts.
C24_RerunEndsLikeOneRun ==
    (pc[1] = "done" /\ "pages" \in DOMAIN job[1]) =>
        store = UninterruptedRun(<<>>, job[1].files, job[1].pages, 0)

\* C25: the passages chunk_documents returns form one doubly linked chain
\* in the order of emission: PREVIOUS of every passage but the first is the
\* id of the passage before it, NEXT of every passage but the last is the
\* id of the passage after it, the first has no PREVIOUS, the last no NEXT,
\* and no link names an id that is not in the list.
C25_OneLinkedChain ==
    last.op = "chunk" =>
        LET links == last.links
            ids == {links[k].node_id : k \in 1..Len(links)}
        IN  \A i \in 1..Len(links) :
                /\ i > 1 => links[i].relationships.PREVIOUS
                                = links[i - 1].node_id
                /\ i < Len(links) => links[i].relationships.NEXT
                                        = links[i + 1].node_id
                /\ i = 1 => links[i].relationships.PREVIOUS = <<>>
                /\ i = Len(links) => links[i].relationships.NEXT = <<>>
                /\ links[i].relationships.PREVIOUS \in ids \cup {<<>>}
                /\ links[i].relationships.NEXT \in ids \cup {<<>>}

\* C26: in the output of _rebalance_headers no block that is followed by a
\* block of the same source file ends in a heading line.
C26_NoTrailingHeadingLeft ==
    last.op = "chunk" =>
        LET out == last.rebalanced
        IN  \A k \in 1..(Len(out) - 1) :
                SourceFile(out[k]) = SourceFile(out[k + 1])
                    => ~OrphanSearch(out[k].text).found

\* C27: when an insert_nodes call has decided N > E and retired the Active
\* revision of its key, and its store write then fails, the key still has
\* Active passages after the call.
C27_UpgradeSurvivesWriteFailure ==
    (/\ pc[1] = "returned" /\ Keyed(job[1])
     /\ job[1].flip /\ job[1].status = "Active"
     /\ job[1].outcome = "raised") =>
        \E i \in 1..Len(store) :
            /\ KeyMatch(store[i], DocNum(job[1].nodes), SopTitle(job[1].nodes))
            /\ Status(store[i]) = "Active"

\* the passage p is outside the key (doc_num, title)
OtherKey(p, doc_num, title) ==
    \/ Get(p, "document_number", <<>>) # doc_num
    \/ Get(p, "sop_title", <<>>) # title

\* C28: no request of an insert_nodes call for the key (document_number,
\* sop_title) changes a stored passage whose document_number or sop_title
\* differs from the key.
C28_Step ==
    \A w \in Workers :
        (InsertStep(w) /\ Keyed(job[w])) =>
            \A i \in 1..Len(store) :
                OtherKey(store[i], DocNum(job[w].nodes),
                         SopTitle(job[w].nodes)) =>
                    /\ i <= Len(store')
                    /\ store'[i] = store[i]

C28_RetireStaysInKey == [][C28_Step]_vars

\* an upgrade retired the older revision of its key while an Active passage
\* of the same title and another document number stood in the store
C28_Witness ==
    \E w \in Workers :
        /\ pc[w] = "write" /\ Keyed(job[w])
        /\ job[w].flip /\ job[w].status = "Active" /\ job[w].added = 0
        /\ \E i \in 1..Len(store) :
            /\ ~OtherKey(store[i], DocNum(job[w].nodes),
                         SopTitle(job[w].nodes))
            /\ Status(store[i]) = "Inactive"
            /\ Less(ExistingVersion(store[i]).val,
                    IncomingVersion(job[w].nodes[1]))
        /\ \E j \in 1..Len(store) :
            /\ Get(store[j], "document_number", <<>>) # DocNum(job[w].nodes)
            /\ Get(store[j], "sop_title", <<>>) = SopTitle(job[w].nodes)
            /\ Status(store[j]) = "Active"

\* C29: when the store query of an insert_nodes call succeeded and the
\* arbitration still ended without a status, it was not the version value
\* that ended it: every Active passage of the key has a version that float()
\* accepts.
C29_ArbitrationTakesAnyVersion ==
    (Keyed(job[1]) /\ job[1].queried /\ job[1].status = "unset") =>
        \A i \in ActiveUnderKey(store, job[1].nodes) :
            ExistingVersion(store[i]).ok

\* the store with every Inactive passage emptied of all but its status
Redacted(s) ==
    [i \in 1..Len(s) |->
        IF Status(s[i]) = "Inactive" THEN [status |-> "Inactive"] ELSE s[i]]

\* C30: the groups a search returns are built from Active passages only:
\* every passage behind a group is Active, and the returned list is the one
\* the same call gives when the Inactive passages hold nothing at all.
C30_SearchSeesOnlyActive ==
    (pc[1] = "done" /\ last.op = "search") =>
        /\ \A g \in 1..Len(last.results) :
            \A c \in last.results[g].points : Status(store[c]) = "Active"
        /\ last = SearchResult(Redacted(store), job[1].term, job[1].cands,
                               job[1].scores, job[1].ok)

\* a search returned a group for a title of which an Inactive passage
\* holds one of the terms as well
C30_Witness ==
    /\ pc[1] = "done" /\ last.op = "search" /\ last.outcome = "results"
    /\ \E g \in 1..Len(last.results) : \E i \in 1..Len(store) :
        /\ Status(store[i]) = "Inactive"
        /\ store[i]["sop_title"] = last.results[g].title
        /\ HasTerm(OriginalText(store[i]), FilteredTerms(job[1].term))

====
